---------------------------- MODULE Spec2Model ----------------------------
(***************************************************************************)
(* Model of the request-building core of the telegram-bot-api binding:     *)
(* File References (RequestFileData), Named File Parts (RequestFile), the  *)
(* media-group rewriter and the request descriptors that use them.         *)
(*                                                                         *)
(* Go values are modelled as records.  A RequestFileData interface value   *)
(* is a record tagged with its dynamic type in `kind`; the nil interface   *)
(* is NilRef.  A slice is an address into `mem`, the backing arrays, so    *)
(* that aliasing between the caller's slice and the rewriter's result is   *)
(* observable.                                                             *)
(***************************************************************************)
EXTENDS Integers, Sequences, FiniteSets, TLC

VARIABLES
    pc,        \* position of the caller: "idle", "building", "built"
    req,       \* the request descriptor the caller has constructed
    mem,       \* backing arrays of the []interface{} slices, by address
    orig,      \* the caller's view of its own media items at construction
    outParams, \* result of the last params() call on req
    outMedia,  \* the value params() handed to AddInterface("media", ...)
    outFiles,  \* result of the last files() call on req
    fs,        \* the set of local paths that os.Open can open
    lastCall,  \* the last File Reference operation called and its outcome
    sub,       \* the submission chosen by Dispatch for req
    opened,    \* the local paths os.Open has been called on for req
    consumed,  \* how many times each caller-supplied stream has been read
    update,    \* the inbound Update a handler holds
    resp,      \* the inbound APIResponse being decoded
    inMessage, \* the inbound Message a command handler holds
    ch,        \* the updates buffered in the UpdatesChannel, oldest first
    sent,      \* how many updates have been sent on the channel so far
    clearing,  \* the goroutine running UpdatesChannel.Clear
    later      \* updates received from the channel after Clear returned

vars == <<pc, req, mem, orig, outParams, outMedia, outFiles, fs, lastCall, sub,
          opened, consumed, update, resp,
          inMessage, ch, sent, clearing, later>>

\* What arrives from the remote side, apart from the Update.
inbound == <<resp, inMessage, ch, sent, clearing, later>>

\* What the caller builds and submits.
outbound == <<pc, req, mem, orig, outParams, outMedia, outFiles, fs, sub,
              opened, consumed>>

(***************************************************************************)
(* Bounds of the model.                                                    *)
(***************************************************************************)
MaxItems == 2      \* longest media list a caller builds

MaxReads == 2      \* most reads of one caller-supplied stream that are followed

MaxPayloads == 2   \* most sub-payloads populated in one inbound Update

MaxAlbum == 1      \* most items in a media group that is queried repeatedly

MaxText == 4       \* most characters in the text of an inbound Message

MaxSent == 4       \* most updates sent on the UpdatesChannel

(***************************************************************************)
(* File References: the six implementers of RequestFileData.               *)
(***************************************************************************)
NilRef == [kind |-> "nil"]

FileBytes(name, bytes) == [kind |-> "FileBytes", Name |-> name, Bytes |-> bytes]

FileReader(name, reader) == [kind |-> "FileReader", Name |-> name, Reader |-> reader]

FilePath(p) == [kind |-> "FilePath", val |-> p]

FileURL(u) == [kind |-> "FileURL", val |-> u]

FileID(id) == [kind |-> "FileID", val |-> id]

fileAttach(tok) == [kind |-> "fileAttach", val |-> tok]

\* NeedsUpload with a Local Path taken for a reference sent by value.
NeedsUploadPathInline(r) == r.kind \in {"FileBytes", "FileReader"}

\* NeedsUpload of each variant.

NeedsUpload(r) ==
    CASE r.kind = "FileBytes"  -> TRUE
      [] r.kind = "FileReader" -> TRUE
      [] r.kind = "FilePath"   -> TRUE
      [] r.kind = "FileURL"    -> FALSE
      [] r.kind = "FileID"     -> FALSE
      [] r.kind = "fileAttach" -> FALSE

\* Outcome of a call: either a panic or a normal return.
Panic(msg) == [panic |-> TRUE, msg |-> msg]

Return(v) == [panic |-> FALSE, ret |-> v]

\* SendData of each variant.

SendData(r) ==
    CASE r.kind = "FileBytes"  -> Panic("FileBytes must be uploaded")
      [] r.kind = "FileReader" -> Panic("FileReader must be uploaded")
      [] r.kind = "FilePath"   -> Panic("FilePath must be uploaded")
      [] r.kind = "FileURL"    -> Return(r.val)
      [] r.kind = "FileID"     -> Return(r.val)
      [] r.kind = "fileAttach" -> Return(r.val)

\* UploadData with the path reported for a file that could not be opened.
UploadDataNamesMissing(r, files) ==
    CASE r.kind = "FileBytes"  ->
           Return([name |-> r.Name, reader |-> [bytes |-> r.Bytes], err |-> "nil"])
      [] r.kind = "FileReader" ->
           Return([name |-> r.Name, reader |-> [stream |-> r.Reader], err |-> "nil"])
      [] r.kind = "FilePath"   ->
           IF r.val \in files
           THEN Return([name |-> r.val, reader |-> [handle |-> r.val], err |-> "nil"])
           ELSE Return([name |-> r.val, reader |-> [none |-> TRUE], err |-> "open failed"])
      [] r.kind = "FileURL"    -> Panic("FileURL cannot be uploaded")
      [] r.kind = "FileID"     -> Panic("FileID cannot be uploaded")
      [] r.kind = "fileAttach" -> Panic("fileAttach cannot be uploaded")

\* UploadData of each variant; `files` is the set of paths os.Open can open.
\* The result is the triple (name, reader, err).
UploadData(r, files) ==
    CASE r.kind = "FileBytes"  ->
           Return([name |-> r.Name, reader |-> [bytes |-> r.Bytes], err |-> "nil"])
      [] r.kind = "FileReader" ->
           Return([name |-> r.Name, reader |-> [stream |-> r.Reader], err |-> "nil"])
      [] r.kind = "FilePath"   ->
           IF r.val \in files
           THEN Return([name |-> r.val, reader |-> [handle |-> r.val], err |-> "nil"])
           ELSE Return([name |-> "", reader |-> [none |-> TRUE], err |-> "open failed"])
      [] r.kind = "FileURL"    -> Panic("FileURL cannot be uploaded")
      [] r.kind = "FileID"     -> Panic("FileID cannot be uploaded")
      [] r.kind = "fileAttach" -> Panic("fileAttach cannot be uploaded")

\* The paths UploadData of r calls os.Open on.
OpenCalls(r) == IF r.kind = "FilePath" THEN {r.val} ELSE {}

(***************************************************************************)
(* Input media items.  `variant` is the dynamic type of the interface{}    *)
(* value; InputMediaPhoto has no Thumb field.  "*InputMediaPhoto" is a     *)
(* pointer to an InputMediaPhoto: no case of the rewriter's type switches  *)
(* matches it, so its pointee is never read or written.                    *)
(***************************************************************************)
NilItem == [variant |-> "nil"]

ThumbVariants == {"InputMediaVideo", "InputMediaAnimation", "InputMediaAudio",
                  "InputMediaDocument"}

NoThumbVariants == {"InputMediaPhoto", "*InputMediaPhoto"}

HasThumb(m) == m.variant \in ThumbVariants /\ m.Thumb # NilRef

\* fmt.Sprintf("attach://file-%d", idx) and its relatives
AttachName(idx) == "attach://file-" \o ToString(idx)

AttachThumbName(idx) == "attach://file-" \o ToString(idx) \o "-thumb"

FileName(idx) == "file-" \o ToString(idx)

\* The part name the documentation of prepareInputMediaFile gives a thumbnail.
FileThumbName(idx) == "file-" \o ToString(idx) \o "-thumb"

RewriteMedia(m, idx) ==
    IF NeedsUpload(m.Media)
    THEN [m EXCEPT !.Media = fileAttach(AttachName(idx))]
    ELSE m

RewriteThumb(m, idx) ==
    IF m.Thumb # NilRef /\ NeedsUpload(m.Thumb)
    THEN [m EXCEPT !.Thumb = fileAttach(AttachThumbName(idx))]
    ELSE m

\* prepareInputMediaParam that rewrites the media but forgets the thumbnail.
prepareInputMediaParamNoThumb(inputMedia, idx) ==
    CASE inputMedia.variant \in {"InputMediaPhoto", "InputMediaVideo", "InputMediaAudio",
                                 "InputMediaDocument"} -> RewriteMedia(inputMedia, idx)
      [] OTHER -> NilItem

\* prepareInputMediaParam: the rewritten copy of one item, or nil (NilItem)
\* when no case of the type switch matches.  `m` is a copy of the struct in
\* the interface value, so the assignments never reach the caller's item.
prepareInputMediaParam(inputMedia, idx) ==
    CASE inputMedia.variant = "InputMediaPhoto" -> RewriteMedia(inputMedia, idx)
      [] inputMedia.variant = "InputMediaVideo" ->
           RewriteThumb(RewriteMedia(inputMedia, idx), idx)
      [] inputMedia.variant = "InputMediaAudio" ->
           RewriteThumb(RewriteMedia(inputMedia, idx), idx)
      [] inputMedia.variant = "InputMediaDocument" ->
           RewriteThumb(RewriteMedia(inputMedia, idx), idx)
      [] OTHER -> NilItem

RequestFile(name, data) == [Name |-> name, Data |-> data]

MediaPart(m, idx) ==
    IF NeedsUpload(m.Media) THEN <<RequestFile(FileName(idx), m.Media)>> ELSE << >>

\* The thumbnail's part: the code formats its name with "file-%d" as well.
ThumbPart(m, idx) ==
    IF m.Thumb # NilRef /\ NeedsUpload(m.Thumb)
    THEN <<RequestFile(FileName(idx), m.Thumb)>>
    ELSE << >>

\* prepareInputMediaFile that adds a part for every reference, uploaded or not.
prepareInputMediaFileUnfiltered(inputMedia, idx) ==
    CASE inputMedia.variant \in NoThumbVariants ->
           <<RequestFile(FileName(idx), inputMedia.Media)>>
      [] OTHER ->
           <<RequestFile(FileName(idx), inputMedia.Media)>>
             \o (IF inputMedia.Thumb # NilRef
                 THEN <<RequestFile(FileName(idx), inputMedia.Thumb)>> ELSE << >>)

\* prepareInputMediaFile: the parts of one item.
prepareInputMediaFile(inputMedia, idx) ==
    CASE inputMedia.variant = "InputMediaPhoto" -> MediaPart(inputMedia, idx)
      [] inputMedia.variant = "InputMediaVideo" ->
           MediaPart(inputMedia, idx) \o ThumbPart(inputMedia, idx)
      [] inputMedia.variant = "InputMediaDocument" ->
           MediaPart(inputMedia, idx) \o ThumbPart(inputMedia, idx)
      [] inputMedia.variant = "InputMediaAudio" ->
           MediaPart(inputMedia, idx) \o ThumbPart(inputMedia, idx)
      [] OTHER -> << >>

(***************************************************************************)
(* JSON text of the values the requests nest in their parameters.          *)
(***************************************************************************)
Quote(str) == "\"" \o str \o "\""

\* encoding/json of a File Reference: the string types (FilePath, FileURL,
\* FileID, fileAttach) are JSON strings, the struct types are JSON objects.
MarshalRef(r) ==
    CASE r.kind = "FileBytes" ->
           "{\"Name\":" \o Quote(r.Name) \o ",\"Bytes\":" \o Quote(r.Bytes) \o "}"
      [] r.kind = "FileReader" ->
           "{\"Name\":" \o Quote(r.Name) \o ",\"Reader\":{}}"
      [] OTHER -> Quote(r.val)

\* encoding/json of an input media item with its json tags: type, media and,
\* when not nil, thumb (the omitempty scalars are all zero in this model).
MarshalItem(m) ==
    "{\"type\":" \o Quote(m.Type) \o ",\"media\":" \o MarshalRef(m.Media)
      \o (IF HasThumb(m) THEN ",\"thumb\":" \o MarshalRef(m.Thumb) ELSE "")
      \o "}"

RECURSIVE MarshalItemsFrom(_, _)
MarshalItemsFrom(items, k) ==
    IF k > Len(items) THEN ""
    ELSE (IF k > 1 THEN "," ELSE "") \o MarshalItem(items[k])
           \o MarshalItemsFrom(items, k + 1)

MarshalItems(items) == "[" \o MarshalItemsFrom(items, 1) \o "]"

\* Values handed to AddInterface.
NilValue == [j |-> "nil"]

RefValue(r) == IF r = NilRef THEN NilValue ELSE [j |-> "ref", ref |-> r]

ItemValue(m) == IF m = NilItem THEN NilValue ELSE [j |-> "item", item |-> m]

ItemsValue(items) == [j |-> "items", items |-> items]

\* encoding/json of a []RequestFile (the fields carry no json tags).
RECURSIVE MarshalPartsFrom(_, _)
MarshalPartsFrom(parts, k) ==
    IF k > Len(parts) THEN ""
    ELSE (IF k > 1 THEN "," ELSE "")
           \o "{\"Name\":" \o Quote(parts[k].Name) \o ",\"Data\":"
           \o (IF parts[k].Data = NilRef THEN "null" ELSE MarshalRef(parts[k].Data))
           \o "}" \o MarshalPartsFrom(parts, k + 1)

PartsValue(parts) == IF parts = << >> THEN NilValue ELSE [j |-> "parts", parts |-> parts]

\* A value whose JSON text is `text` (a keyboard, a struct of scalars).
JSONValue(text) == [j |-> "json", text |-> text]

\* A value encoding/json rejects (a channel or a func behind interface{}).
Unsupported == [j |-> "unsupported"]

Marshal(v) ==
    CASE v.j = "ref"   -> MarshalRef(v.ref)
      [] v.j = "item"  -> MarshalItem(v.item)
      [] v.j = "items" -> MarshalItems(v.items)
      [] v.j = "parts" -> "[" \o MarshalPartsFrom(v.parts, 1) \o "]"
      [] v.j = "json"  -> v.text

\* The error of json.Marshal; "nil" is Go's nil error.
MarshalErr(v) == IF v = Unsupported THEN "json: unsupported type" ELSE "nil"

(***************************************************************************)
(* Parameter Mapping (Params): a map from field name to wire string.       *)
(***************************************************************************)
NoParams == [k \in {} |-> ""]

\* p[key] = value: the mapping p with key set to value.
Put(p, key, value) == (key :> value) @@ p

AddNonEmpty(p, key, value) == IF value # "" THEN Put(p, key, value) ELSE p

AddNonZero(p, key, value) == IF value # 0 THEN Put(p, key, ToString(value)) ELSE p

AddNonZero64(p, key, value) == IF value # 0 THEN Put(p, key, ToString(value)) ELSE p

AddBool(p, key, value) == Put(p, key, IF value THEN "true" ELSE "false")

\* AddInterface: nothing for an absent value or for one that cannot be
\* serialised, else the value's JSON text.
AddInterface(p, key, value) ==
    IF value = NilValue \/ MarshalErr(value) # "nil" THEN p
    ELSE Put(p, key, Marshal(value))

\* The error AddInterface returns.
AddInterfaceErr(value) == IF value = NilValue THEN "nil" ELSE MarshalErr(value)

\* The candidates of AddFirstValid: integers and strings.
IntArg(n) == [int |-> n]

StrArg(str) == [str |-> str]

\* The position of the first candidate from k on that is a non-zero integer
\* or a non-empty string; 0 when there is none.
RECURSIVE FirstValid(_, _)
FirstValid(args, k) ==
    IF k > Len(args) THEN 0
    ELSE IF "int" \in DOMAIN args[k]
         THEN (IF args[k].int # 0 THEN k ELSE FirstValid(args, k + 1))
         ELSE (IF args[k].str # "" THEN k ELSE FirstValid(args, k + 1))

\* AddFirstValid: the wire form of the first qualifying candidate.
AddFirstValid(p, key, args) ==
    IF FirstValid(args, 1) = 0 THEN p
    ELSE IF "int" \in DOMAIN args[FirstValid(args, 1)]
         THEN Put(p, key, ToString(args[FirstValid(args, 1)].int))
         ELSE Put(p, key, args[FirstValid(args, 1)].str)

\* The error AddFirstValid returns: no candidate qualified.
AddFirstValidErr(args) ==
    IF FirstValid(args, 1) = 0 THEN "InvalidParameterError" ELSE "nil"

\* CheckArgs: an error when one of the named keys is not in the mapping.
CheckArgs(p, keys) ==
    IF \A k \in DOMAIN keys : keys[k] \in DOMAIN p THEN "nil"
    ELSE "missing required argument"

\* The pair (Params, error) a params() method returns.
ParamsResult(params, err) == [params |-> params, err |-> err]

(***************************************************************************)
(* Request descriptors.  Every scalar field the model does not vary is     *)
(* kept at its zero value in the constructors below.                       *)
(***************************************************************************)
BaseChat(chatID) ==
    [ChatID |-> chatID, ChannelUsername |-> "", ProtectContent |-> FALSE,
     ReplyToMessageID |-> 0, ReplyMarkup |-> NilValue, DisableNotification |-> FALSE,
     AllowSendingWithoutReply |-> FALSE, BusinessConnectionID |-> "",
     MessageThreadID |-> 0]

BaseChatParams(chat) ==
    LET p1 == AddFirstValid(NoParams, "chat_id",
                            <<IntArg(chat.ChatID), StrArg(chat.ChannelUsername)>>)
        p2 == AddNonZero(p1, "reply_to_message_id", chat.ReplyToMessageID)
        p3 == AddBool(p2, "disable_notification", chat.DisableNotification)
        p4 == AddBool(p3, "allow_sending_without_reply", chat.AllowSendingWithoutReply)
        p5 == AddBool(p4, "protect_content", chat.ProtectContent)
        p6 == AddNonEmpty(p5, "business_connection_id", chat.BusinessConnectionID)
        p7 == AddNonZero64(p6, "message_thread_id", chat.MessageThreadID)
    IN  ParamsResult(AddInterface(p7, "reply_markup", chat.ReplyMarkup),
                     AddInterfaceErr(chat.ReplyMarkup))

BaseEdit(chatID, messageID) ==
    [ChatID |-> chatID, ChannelUsername |-> "", MessageID |-> messageID,
     InlineMessageID |-> "", ReplyMarkup |-> NilValue, BusinessConnectionID |-> "",
     LinkPreviewOptions |-> NilValue]

BaseEditParams(edit) ==
    LET p1 == IF edit.InlineMessageID # ""
              THEN Put(NoParams, "inline_message_id", edit.InlineMessageID)
              ELSE AddNonZero(AddFirstValid(NoParams, "chat_id",
                                            <<IntArg(edit.ChatID),
                                              StrArg(edit.ChannelUsername)>>),
                              "message_id", edit.MessageID)
        p2 == AddNonEmpty(p1, "business_connection_id", edit.BusinessConnectionID)
        p3 == AddInterface(p2, "link_preview_options", edit.LinkPreviewOptions)
    IN  ParamsResult(AddInterface(p3, "reply_markup", edit.ReplyMarkup),
                     AddInterfaceErr(edit.ReplyMarkup))

\* The caption and reply fields shared by the send-file requests.
Zeros ==
    [Caption |-> "", ParseMode |-> "", CaptionEntities |-> NilValue,
     MessageEffectID |-> "", ShowCaptionAboveMedia |-> FALSE, HasSpoiler |-> FALSE,
     AllowPaidBroadcast |-> FALSE, ReplyParameters |-> NilValue, Duration |-> 0,
     Performer |-> "", Title |-> "", Width |-> 0, Height |-> 0,
     StartTimeStamp |-> 0, SupportsStreaming |-> FALSE]

PhotoConfig(file, thumb) ==
    [type |-> "PhotoConfig", BaseChat |-> BaseChat(42), File |-> file, Thumb |-> thumb,
     f |-> Zeros]

PhotoConfigParams(config) ==
    LET base == BaseChatParams(config.BaseChat)
        p0 == base.params
        p1 == AddNonEmpty(p0, "caption", config.f.Caption)
        p2 == AddNonEmpty(p1, "parse_mode", config.f.ParseMode)
        p3 == AddInterface(p2, "caption_entities", config.f.CaptionEntities)
        p4 == AddNonEmpty(p3, "message_effect_id", config.f.MessageEffectID)
        p5 == AddBool(p4, "show_caption_above_media", config.f.ShowCaptionAboveMedia)
        p6 == AddBool(p5, "has_spoiler", config.f.HasSpoiler)
        p7 == AddBool(p6, "allow_paid_broadcast", config.f.AllowPaidBroadcast)
        p8 == AddInterface(p7, "reply_parameters", config.f.ReplyParameters)
    IN  IF base.err # "nil" THEN base
        ELSE ParamsResult(p8, AddInterfaceErr(config.f.CaptionEntities))

\* files() of the requests with one primary file and an optional thumbnail:
\* the primary part is always returned, the thumbnail's when it is not nil.
FileAndThumb(name, file, thumbName, thumb) ==
    <<RequestFile(name, file)>>
      \o (IF thumb # NilRef THEN <<RequestFile(thumbName, thumb)>> ELSE << >>)

PhotoConfigFiles(config) == FileAndThumb("photo", config.File, "thumb", config.Thumb)

AudioConfig(file, thumb) ==
    [type |-> "AudioConfig", BaseChat |-> BaseChat(42), File |-> file, Thumb |-> thumb,
     f |-> Zeros]

AudioConfigParams(config) ==
    LET base == BaseChatParams(config.BaseChat)
        p0 == base.params
        p1 == AddNonZero(p0, "duration", config.f.Duration)
        p2 == AddNonEmpty(p1, "performer", config.f.Performer)
        p3 == AddNonEmpty(p2, "title", config.f.Title)
        p4 == AddNonEmpty(p3, "caption", config.f.Caption)
        p5 == AddNonEmpty(p4, "parse_mode", config.f.ParseMode)
        p6 == AddNonEmpty(p5, "message_effect_id", config.f.MessageEffectID)
        p7 == AddBool(p6, "allow_paid_broadcast", config.f.AllowPaidBroadcast)
        p8 == AddInterface(p7, "reply_parameters", config.f.ReplyParameters)
        p9 == AddInterface(p8, "caption_entities", config.f.CaptionEntities)
    IN  IF base.err # "nil" THEN base
        ELSE ParamsResult(p9, AddInterfaceErr(config.f.CaptionEntities))

AudioConfigFiles(config) == FileAndThumb("audio", config.File, "thumb", config.Thumb)

VideoConfig(file, thumb) ==
    [type |-> "VideoConfig", BaseChat |-> BaseChat(42), File |-> file,
     Thumbnail |-> thumb, Cover |-> NilRef, f |-> Zeros]

VideoConfigParams(config) ==
    LET base == BaseChatParams(config.BaseChat)
        p0  == base.params
        p1  == AddNonZero(p0, "duration", config.f.Duration)
        p2  == AddNonEmpty(p1, "caption", config.f.Caption)
        p3  == AddNonEmpty(p2, "parse_mode", config.f.ParseMode)
        p4  == AddBool(p3, "supports_streaming", config.f.SupportsStreaming)
        p5  == AddNonEmpty(p4, "message_effect_id", config.f.MessageEffectID)
        p6  == AddBool(p5, "show_caption_above_media", config.f.ShowCaptionAboveMedia)
        p7  == AddNonZero(p6, "start_timestamp", config.f.StartTimeStamp)
        p8  == AddNonZero(p7, "width", config.f.Width)
        p9  == AddNonZero(p8, "height", config.f.Height)
        p10 == AddBool(p9, "has_spoiler", config.f.HasSpoiler)
        p11 == AddBool(p10, "allow_paid_broadcast", config.f.AllowPaidBroadcast)
        p12 == AddInterface(p11, "reply_parameters", config.f.ReplyParameters)
        p13 == AddInterface(p12, "caption_entities", config.f.CaptionEntities)
    IN  IF base.err # "nil" THEN base
        ELSE ParamsResult(p13, AddInterfaceErr(config.f.CaptionEntities))

VideoConfigFiles(config) ==
    <<RequestFile("video", config.File)>>
      \o (IF config.Thumbnail # NilRef
          THEN <<RequestFile("thumbnail", config.Thumbnail)>> ELSE << >>)
      \o (IF config.Cover # NilRef
          THEN <<RequestFile("cover", config.Cover)>> ELSE << >>)

StickerConfig(file) ==
    [type |-> "StickerConfig", BaseChat |-> BaseChat(42), File |-> file]

StickerConfigParams(config) == BaseChatParams(config.BaseChat)

StickerConfigFiles(config) == <<RequestFile("sticker", config.File)>>

WebhookConfig(cert) ==
    [type |-> "WebhookConfig", URL |-> "https://bot.example/hook", Certificate |-> cert,
     IPAddress |-> "", MaxConnections |-> 0, AllowedUpdates |-> NilValue,
     DropPendingUpdates |-> FALSE, SecretToken |-> ""]

WebhookConfigParams(config) ==
    LET p0 == IF config.URL # "" THEN Put(NoParams, "url", config.URL) ELSE NoParams
        p1 == AddNonEmpty(p0, "ip_address", config.IPAddress)
        p2 == AddNonZero(p1, "max_connections", config.MaxConnections)
        p3 == AddInterface(p2, "allowed_updates", config.AllowedUpdates)
        p4 == AddBool(p3, "drop_pending_updates", config.DropPendingUpdates)
    IN  ParamsResult(AddNonEmpty(p4, "secret_token", config.SecretToken),
                     AddInterfaceErr(config.AllowedUpdates))

WebhookConfigFiles(config) ==
    IF config.Certificate # NilRef
    THEN <<RequestFile("certificate", config.Certificate)>>
    ELSE << >>

PaidMediaConfig(media) ==
    [type |-> "PaidMediaConfig", BaseChat |-> BaseChat(42), StarCount |-> 0,
     Media |-> media, Payload |-> "", f |-> Zeros]

PaidMediaConfigParams(config) ==
    LET base == BaseChatParams(config.BaseChat)
        p0 == base.params
        p1 == AddNonZero(p0, "star_count", config.StarCount)
        p2 == AddInterface(p1, "media", PartsValue(config.Media))
        p3 == AddNonEmpty(p2, "payload", config.Payload)
        p4 == AddNonEmpty(p3, "caption", config.f.Caption)
        p5 == AddNonEmpty(p4, "parse_mode", config.f.ParseMode)
        p6 == AddInterface(p5, "caption_entities", config.f.CaptionEntities)
        p7 == AddBool(p6, "show_caption_above_media", config.f.ShowCaptionAboveMedia)
        p8 == AddBool(p7, "allow_paid_broadcast", config.f.AllowPaidBroadcast)
    IN  ParamsResult(AddInterface(p8, "reply_parameters", config.f.ReplyParameters),
                     base.err)

PaidMediaConfigFiles(config) == config.Media

SendStickerConfig(sticker) ==
    [type |-> "SendStickerConfig", BusinessConnectionID |-> "", ChatID |-> 42,
     MessageThreadID |-> 0, Sticker |-> sticker, Emoji |-> "",
     DisableNotification |-> FALSE, ProtectContent |-> FALSE,
     AllowPaidBroadcast |-> FALSE, MessageEffectID |-> "",
     ReplyParameters |-> NilValue, ReplyMarkup |-> NilValue]

SendStickerConfigParams(config) ==
    LET p1  == AddNonEmpty(NoParams, "business_connection_id", config.BusinessConnectionID)
        p2  == AddNonZero64(p1, "chat_id", config.ChatID)
        p3  == AddNonZero64(p2, "message_thread_id", config.MessageThreadID)
        p4  == AddInterface(p3, "sticker", RefValue(config.Sticker))
        p5  == AddNonEmpty(p4, "emoji", config.Emoji)
        p6  == AddBool(p5, "disable_notification", config.DisableNotification)
        p7  == AddBool(p6, "protect_content", config.ProtectContent)
        p8  == AddBool(p7, "allow_paid_broadcast", config.AllowPaidBroadcast)
        p9  == AddNonEmpty(p8, "message_effect_id", config.MessageEffectID)
        p10 == AddInterface(p9, "reply_parameters", config.ReplyParameters)
    IN  ParamsResult(AddInterface(p10, "reply_markup", config.ReplyMarkup), "nil")

(***************************************************************************)
(* Requests without files.                                                 *)
(***************************************************************************)
\* encoding/json of the zero ReplyParameters and InlineKeyboardMarkup, which
\* SendGameConfig holds by value.
ZeroReplyParameters ==
    JSONValue("{\"message_id\":0,\"chat_id\":\"\",\"allow_sending_without_reply\":false,"
              \o "\"quote\":\"\",\"quote_parse_mode\":\"\",\"quote_entities\":null,"
              \o "\"quote_position\":0}")

ZeroInlineKeyboardMarkup == JSONValue("{\"inline_keyboard\":null}")

SendGameConfig(chat, name) ==
    [type |-> "SendGameConfig", BaseChat |-> chat, GameShortName |-> name,
     DisableNotification |-> FALSE, ProtectContent |-> FALSE,
     AllowPaidBroadcast |-> FALSE, MessageEffectID |-> "",
     ReplyParameters |-> ZeroReplyParameters, ReplyMarkup |-> ZeroInlineKeyboardMarkup]

SendGameConfigParams(config) ==
    LET p0 == BaseChatParams(config.BaseChat).params
        p1 == AddNonEmpty(p0, "business_connection_id",
                          config.BaseChat.BusinessConnectionID)
        p2 == AddNonEmpty(p1, "game_short_name", config.GameShortName)
        p3 == AddBool(p2, "disable_notification", config.DisableNotification)
        p4 == AddBool(p3, "protect_content", config.ProtectContent)
        p5 == AddBool(p4, "allow_paid_broadcast", config.AllowPaidBroadcast)
        p6 == AddNonEmpty(p5, "message_effect_id", config.MessageEffectID)
        p7 == AddInterface(p6, "reply_parameters", config.ReplyParameters)
    IN  ParamsResult(AddInterface(p7, "reply_markup", config.ReplyMarkup), "nil")

ChatActionConfig(chat, action) ==
    [type |-> "ChatActionConfig", BaseChat |-> chat, Action |-> action]

ChatActionConfigParams(config) ==
    ParamsResult(Put(BaseChatParams(config.BaseChat).params, "action", config.Action),
                 BaseChatParams(config.BaseChat).err)

ChatConfig(chatID, superGroupUsername) ==
    [type |-> "ChatConfig", ChatID |-> chatID, SuperGroupUsername |-> superGroupUsername]

\* ChatConfig.params with the protect_content literal written as well.
ChatConfigParamsWithBool(config) ==
    ParamsResult(AddBool(AddFirstValid(NoParams, "chat_id",
                                       <<IntArg(config.ChatID),
                                         StrArg(config.SuperGroupUsername)>>),
                         "protect_content", FALSE),
                 "nil")

ChatConfigParams(config) ==
    ParamsResult(AddFirstValid(NoParams, "chat_id",
                               <<IntArg(config.ChatID),
                                 StrArg(config.SuperGroupUsername)>>),
                 "nil")

UnbanChatMemberConfig(chatID, superGroupUsername, channelUsername, userID) ==
    [type |-> "UnbanChatMemberConfig", ChatID |-> chatID,
     SuperGroupUsername |-> superGroupUsername, ChannelUsername |-> channelUsername,
     UserID |-> userID, OnlyIfBanned |-> FALSE]

UnbanChatMemberConfigParams(config) ==
    LET p1 == AddFirstValid(NoParams, "chat_id",
                            <<IntArg(config.ChatID), StrArg(config.SuperGroupUsername),
                              StrArg(config.ChannelUsername)>>)
        p2 == AddNonZero64(p1, "user_id", config.UserID)
    IN  ParamsResult(AddBool(p2, "only_if_banned", config.OnlyIfBanned), "nil")

GetChatMenuButtonConfig(chatID, channelUsername) ==
    [type |-> "GetChatMenuButtonConfig", ChatID |-> chatID,
     ChannelUsername |-> channelUsername]

\* GetChatMenuButtonConfig.params with the username tried before the ID.
GetChatMenuButtonConfigParamsNameFirst(config) ==
    ParamsResult(AddFirstValid(NoParams, "chat_id",
                               <<StrArg(config.ChannelUsername),
                                 IntArg(config.ChatID)>>),
                 AddFirstValidErr(<<StrArg(config.ChannelUsername),
                                    IntArg(config.ChatID)>>))

GetChatMenuButtonConfigParams(config) ==
    ParamsResult(AddFirstValid(NoParams, "chat_id",
                               <<IntArg(config.ChatID),
                                 StrArg(config.ChannelUsername)>>),
                 AddFirstValidErr(<<IntArg(config.ChatID),
                                    StrArg(config.ChannelUsername)>>))

(***************************************************************************)
(* The story requests.  InputStoryContent is held by value: a request      *)
(* whose Content was never assigned holds the zero InputStoryContent.      *)
(***************************************************************************)
InputStoryContent(type, photo) == [Type |-> type, Photo |-> photo]

\* encoding/json of an InputStoryContent (no json tags, no omitempty; the
\* video fields are zero in this model).
ContentValue(content) ==
    JSONValue("{\"Type\":" \o Quote(content.Type) \o ",\"Photo\":" \o Quote(content.Photo)
              \o ",\"Video\":\"\",\"Duration\":0,\"IsAnimated\":false,"
              \o "\"CoverFrameTimestamp\":0}")

PostStoryConfig(id, content, period, caption, toChatPage, protect) ==
    [type |-> "PostStoryConfig", BusinessConnectionID |-> id, Content |-> content,
     ActivePeriod |-> period, Caption |-> caption, ParseMode |-> "",
     CaptionEntities |-> NilValue, Areas |-> NilValue,
     PostToChatPage |-> toChatPage, ProtectContent |-> protect]

\* PostStoryConfig.params with a boolean written only when it is true.
PostStoryConfigParamsOmitFalse(config) ==
    LET p1 == AddNonEmpty(NoParams, "business_connection_id", config.BusinessConnectionID)
        p2 == AddInterface(p1, "content", ContentValue(config.Content))
        p3 == AddNonZero(p2, "active_period", config.ActivePeriod)
        p4 == AddNonEmpty(p3, "caption", config.Caption)
        p5 == AddNonEmpty(p4, "parse_mode", config.ParseMode)
        p6 == AddInterface(p5, "caption_entities", config.CaptionEntities)
        p7 == AddInterface(p6, "areas", config.Areas)
        p8 == IF config.PostToChatPage THEN Put(p7, "post_to_chat_page", "true") ELSE p7
        p9 == IF config.ProtectContent THEN Put(p8, "protect_content", "true") ELSE p8
        err == CheckArgs(p9, <<"business_connection_id", "content", "active_period">>)
    IN  IF err # "nil" THEN ParamsResult(NoParams, err) ELSE ParamsResult(p9, "nil")

\* A nil Params is returned with the error: it reads as the empty mapping.
PostStoryConfigParams(config) ==
    LET p1 == AddNonEmpty(NoParams, "business_connection_id", config.BusinessConnectionID)
        p2 == AddInterface(p1, "content", ContentValue(config.Content))
        p3 == AddNonZero(p2, "active_period", config.ActivePeriod)
        p4 == AddNonEmpty(p3, "caption", config.Caption)
        p5 == AddNonEmpty(p4, "parse_mode", config.ParseMode)
        p6 == AddInterface(p5, "caption_entities", config.CaptionEntities)
        p7 == AddInterface(p6, "areas", config.Areas)
        p8 == AddBool(p7, "post_to_chat_page", config.PostToChatPage)
        p9 == AddBool(p8, "protect_content", config.ProtectContent)
        err == CheckArgs(p9, <<"business_connection_id", "content", "active_period">>)
    IN  IF err # "nil" THEN ParamsResult(NoParams, err) ELSE ParamsResult(p9, "nil")

EditStoryConfig(id, storyID, content, caption, toChatPage, protect) ==
    [type |-> "EditStoryConfig", BusinessConnectionID |-> id, StoryID |-> storyID,
     Content |-> content, Caption |-> caption, ParseMode |-> "",
     CaptionEntities |-> NilValue, Areas |-> NilValue,
     PostToChatPage |-> toChatPage, ProtectContent |-> protect]

EditStoryConfigParams(config) ==
    LET p1 == AddNonEmpty(NoParams, "business_connection_id", config.BusinessConnectionID)
        p2 == AddNonZero(p1, "story_id", config.StoryID)
        p3 == AddInterface(p2, "content", ContentValue(config.Content))
        p4 == AddNonEmpty(p3, "caption", config.Caption)
        p5 == AddNonEmpty(p4, "parse_mode", config.ParseMode)
        p6 == AddInterface(p5, "caption_entities", config.CaptionEntities)
        p7 == AddInterface(p6, "areas", config.Areas)
        p8 == AddBool(p7, "post_to_chat_page", config.PostToChatPage)
        p9 == AddBool(p8, "protect_content", config.ProtectContent)
        err == CheckArgs(p9, <<"business_connection_id", "story_id", "content">>)
    IN  IF err # "nil" THEN ParamsResult(NoParams, err) ELSE ParamsResult(p9, "nil")

DeleteStoryConfig(id, storyID) ==
    [type |-> "DeleteStoryConfig", BusinessConnectionID |-> id, StoryID |-> storyID]

\* DeleteStoryConfig.params with story_id written whatever its value.
DeleteStoryConfigParamsKeepZero(config) ==
    LET p1 == AddNonEmpty(NoParams, "business_connection_id", config.BusinessConnectionID)
        p2 == Put(p1, "story_id", ToString(config.StoryID))
        err == CheckArgs(p2, <<"business_connection_id", "story_id">>)
    IN  IF err # "nil" THEN ParamsResult(NoParams, err) ELSE ParamsResult(p2, "nil")

DeleteStoryConfigParams(config) ==
    LET p1 == AddNonEmpty(NoParams, "business_connection_id", config.BusinessConnectionID)
        p2 == AddNonZero(p1, "story_id", config.StoryID)
        err == CheckArgs(p2, <<"business_connection_id", "story_id">>)
    IN  IF err # "nil" THEN ParamsResult(NoParams, err) ELSE ParamsResult(p2, "nil")

(***************************************************************************)
(* Edit requests: BaseEdit with any target, and the requests built on it.  *)
(***************************************************************************)
\* AddNonZeroFloat, for the whole-number values used here: six decimals.
AddNonZeroFloat(p, key, value) ==
    IF value # 0 THEN Put(p, key, ToString(value) \o ".000000") ELSE p

EditMessageTextConfig(edit, text) ==
    [type |-> "EditMessageTextConfig", BaseEdit |-> edit, Text |-> text,
     ParseMode |-> "", Entities |-> NilValue, DisableWebPagePreview |-> FALSE]

EditMessageTextConfigParams(config) ==
    LET base == BaseEditParams(config.BaseEdit)
        p1 == Put(base.params, "text", config.Text)
        p2 == AddNonEmpty(p1, "parse_mode", config.ParseMode)
        p3 == AddBool(p2, "disable_web_page_preview", config.DisableWebPagePreview)
    IN  IF base.err # "nil" THEN base
        ELSE ParamsResult(AddInterface(p3, "entities", config.Entities),
                          AddInterfaceErr(config.Entities))

EditMessageCaptionConfig(edit, caption) ==
    [type |-> "EditMessageCaptionConfig", BaseEdit |-> edit, Caption |-> caption,
     ParseMode |-> "", CaptionEntities |-> NilValue, ShowCaptionAboveMedia |-> FALSE]

EditMessageCaptionConfigParams(config) ==
    LET base == BaseEditParams(config.BaseEdit)
        p1 == Put(base.params, "caption", config.Caption)
        p2 == AddNonEmpty(p1, "parse_mode", config.ParseMode)
        p3 == AddBool(p2, "show_caption_above_media", config.ShowCaptionAboveMedia)
    IN  IF base.err # "nil" THEN base
        ELSE ParamsResult(AddInterface(p3, "caption_entities", config.CaptionEntities),
                          AddInterfaceErr(config.CaptionEntities))

EditMessageLiveLocationConfig(edit, latitude, longitude) ==
    [type |-> "EditMessageLiveLocationConfig", BaseEdit |-> edit,
     Latitude |-> latitude, Longitude |-> longitude, HorizontalAccuracy |-> 0,
     Heading |-> 0, ProximityAlertRadius |-> 0, LivePeriod |-> 0]

EditMessageLiveLocationConfigParams(config) ==
    LET base == BaseEditParams(config.BaseEdit)
        p1 == AddNonZeroFloat(base.params, "latitude", config.Latitude)
        p2 == AddNonZeroFloat(p1, "longitude", config.Longitude)
        p3 == AddNonZeroFloat(p2, "horizontal_accuracy", config.HorizontalAccuracy)
        p4 == AddNonZero(p3, "heading", config.Heading)
        p5 == AddNonZero(p4, "proximity_alert_radius", config.ProximityAlertRadius)
    IN  ParamsResult(AddNonZero(p5, "live_period", config.LivePeriod), base.err)

StopMessageLiveLocationConfig(edit) ==
    [type |-> "StopMessageLiveLocationConfig", BaseEdit |-> edit]

StopMessageLiveLocationConfigParams(config) == BaseEditParams(config.BaseEdit)

EditMessageReplyMarkupConfig(edit) ==
    [type |-> "EditMessageReplyMarkupConfig", BaseEdit |-> edit]

EditMessageReplyMarkupConfigParams(config) == BaseEditParams(config.BaseEdit)

StopPollConfig(edit) == [type |-> "StopPollConfig", BaseEdit |-> edit]

StopPollConfigParams(config) == BaseEditParams(config.BaseEdit)

(***************************************************************************)
(* Game scores: the message target is written as in BaseEdit.              *)
(***************************************************************************)
SetGameScoreConfig(userID, score, chatID, channelUsername, messageID, inlineMessageID) ==
    [type |-> "SetGameScoreConfig", UserID |-> userID, Score |-> score,
     Force |-> FALSE, DisableEditMessage |-> FALSE, ChatID |-> chatID,
     ChannelUsername |-> channelUsername, MessageID |-> messageID,
     InlineMessageID |-> inlineMessageID]

SetGameScoreConfigParams(config) ==
    LET p1 == AddNonZero64(NoParams, "user_id", config.UserID)
        p2 == AddNonZero(p1, "scrore", config.Score)
        p3 == AddBool(p2, "disable_edit_message", config.DisableEditMessage)
    IN  ParamsResult(
            IF config.InlineMessageID # ""
            THEN Put(p3, "inline_message_id", config.InlineMessageID)
            ELSE AddNonZero(AddFirstValid(p3, "chat_id",
                                          <<IntArg(config.ChatID),
                                            StrArg(config.ChannelUsername)>>),
                            "message_id", config.MessageID),
            "nil")

GetGameHighScoresConfig(userID, chatID, channelUsername, messageID, inlineMessageID) ==
    [type |-> "GetGameHighScoresConfig", UserID |-> userID, ChatID |-> chatID,
     ChannelUsername |-> channelUsername, MessageID |-> messageID,
     InlineMessageID |-> inlineMessageID]

\* GetGameHighScoresConfig.params that always writes the chat target.
GetGameHighScoresConfigParamsBothTargets(config) ==
    LET p1 == AddNonZero64(NoParams, "user_id", config.UserID)
        p2 == IF config.InlineMessageID # ""
              THEN Put(p1, "inline_message_id", config.InlineMessageID)
              ELSE p1
    IN  ParamsResult(
            AddNonZero(AddFirstValid(p2, "chat_id",
                                     <<IntArg(config.ChatID),
                                       StrArg(config.ChannelUsername)>>),
                       "message_id", config.MessageID),
            "nil")

GetGameHighScoresConfigParams(config) ==
    LET p1 == AddNonZero64(NoParams, "user_id", config.UserID)
    IN  ParamsResult(
            IF config.InlineMessageID # ""
            THEN Put(p1, "inline_message_id", config.InlineMessageID)
            ELSE AddNonZero(AddFirstValid(p1, "chat_id",
                                          <<IntArg(config.ChatID),
                                            StrArg(config.ChannelUsername)>>),
                            "message_id", config.MessageID),
            "nil")

(***************************************************************************)
(* Forwarding one message and forwarding a list of messages.               *)
(***************************************************************************)
ForwardConfig(chat, fromChatID, messageID) ==
    [type |-> "ForwardConfig", BaseChat |-> chat, FromChatID |-> fromChatID,
     FromChannelUsername |-> "", MessageID |-> messageID, VideoStartTimestamp |-> 0]

ForwardConfigParams(config) ==
    LET base == BaseChatParams(config.BaseChat)
        p1 == AddNonZero64(base.params, "from_chat_id", config.FromChatID)
        p2 == AddNonZero(p1, "message_id", config.MessageID)
    IN  IF base.err # "nil" THEN base
        ELSE ParamsResult(AddNonZero(p2, "video_start_timestamp",
                                     config.VideoStartTimestamp), "nil")

\* messageIDs is the []int as encoding/json writes it.
ForwardMsgsConfig(chat, fromChatID, messageIDs) ==
    [type |-> "ForwardMsgsConfig", BaseChat |-> chat, MessageThreadID |-> 0,
     FromChatID |-> fromChatID, FromUserName |-> "", MessageIDs |-> messageIDs]

ForwardMsgsConfigParams(config) ==
    LET base == BaseChatParams(config.BaseChat)
        p1 == AddNonZero64(base.params, "message_thread_id", config.MessageThreadID)
        p2 == AddFirstValid(p1, "from_chat_id",
                            <<IntArg(config.FromChatID), StrArg(config.FromUserName)>>)
    IN  IF base.err # "nil" THEN base
        ELSE ParamsResult(AddInterface(p2, "message_ids", config.MessageIDs), "nil")

(***************************************************************************)
(* Slices.  The caller's slice lives at address "callerMedia".  The        *)
(* rewriter's make() returns a fresh array; only the newest result is      *)
(* reachable, so it is kept at the one address "newMedia".                 *)
(***************************************************************************)
CallerAddr == "callerMedia"

\* make + copy that returns the argument slice itself instead of a new array.
MakeCopyAliased(inputMedia) == inputMedia

\* newMedia := make([]interface{}, len(inputMedia)); copy(newMedia, inputMedia)
\* The address of the array that holds the copy.
MakeCopy(inputMedia) == "newMedia"

\* The loop of prepareInputMediaForParams over the elements of inputMedia,
\* writing into the array newMedia; `items` are the elements ranged over.
RECURSIVE ParamsLoop(_, _, _)
ParamsLoop(items, newItems, k) ==
    IF k > Len(items) THEN newItems
    ELSE LET param == prepareInputMediaParam(items[k], k - 1)
         IN  ParamsLoop(items,
                        IF param # NilItem THEN [newItems EXCEPT ![k] = param]
                                           ELSE newItems,
                        k + 1)

\* prepareInputMediaForParams on the slice at address inputMedia of memory m:
\* the memory afterwards and the address of the returned slice.
prepareInputMediaForParams(m, inputMedia) ==
    LET newMedia == MakeCopy(inputMedia)
        items    == m[inputMedia]
        written  == ParamsLoop(items, items, 1)
    IN  [mem |-> [a \in (DOMAIN m) \cup {newMedia} |->
                     IF a = newMedia THEN written ELSE m[a]],
         ret |-> newMedia]

\* prepareInputMediaForFiles: the parts of every item, in item order.
RECURSIVE FilesLoop(_, _)
FilesLoop(items, k) ==
    IF k > Len(items) THEN << >>
    ELSE prepareInputMediaFile(items[k], k - 1) \o FilesLoop(items, k + 1)

prepareInputMediaForFiles(m, inputMedia) == FilesLoop(m[inputMedia], 1)

(***************************************************************************)
(* The requests that embed input media.                                    *)
(***************************************************************************)
MediaGroupConfig(media) ==
    [type |-> "MediaGroupConfig", ChatID |-> 42, ChannelUsername |-> "",
     Media |-> media, DisableNotification |-> FALSE, ReplyToMessageID |-> 0,
     MessageThreadID |-> 0, ProtectContent |-> FALSE, AllowPaidBroadcast |-> FALSE,
     MessageEffectID |-> "", ReplyParameters |-> NilValue,
     BusinessConnectionID |-> ""]

\* MediaGroupConfig.params in memory m: the mapping, the error, the memory
\* afterwards and the value handed to AddInterface under "media".
MediaGroupConfigParams(config, m) ==
    LET p1 == AddFirstValid(NoParams, "chat_id",
                            <<IntArg(config.ChatID), StrArg(config.ChannelUsername)>>)
        p2 == AddBool(p1, "disable_notification", config.DisableNotification)
        p3 == AddNonZero(p2, "reply_to_message_id", config.ReplyToMessageID)
        p4 == AddNonZero(p3, "message_thread_id", config.MessageThreadID)
        p5 == AddNonEmpty(p4, "business_connection_id", config.BusinessConnectionID)
        p6 == AddBool(p5, "protect_content", config.ProtectContent)
        p7 == AddBool(p6, "allow_paid_broadcast", config.AllowPaidBroadcast)
        p8 == AddNonEmpty(p7, "message_effect_id", config.MessageEffectID)
        p9 == AddInterface(p8, "reply_parameters", config.ReplyParameters)
        r  == prepareInputMediaForParams(m, config.Media)
    IN  [params |-> AddInterface(p9, "media", ItemsValue(r.mem[r.ret])),
         err    |-> AddInterfaceErr(ItemsValue(r.mem[r.ret])),
         mem    |-> r.mem,
         media  |-> [j |-> "slice", addr |-> r.ret]]

MediaGroupConfigFiles(config, m) == prepareInputMediaForFiles(m, config.Media)

NoMedia == [j |-> "none"]

EditMessageMediaConfig(media) ==
    [type |-> "EditMessageMediaConfig", BaseEdit |-> BaseEdit(42, 7), Media |-> media]

EditMessageMediaConfigParams(config) ==
    LET base  == BaseEditParams(config.BaseEdit)
        media == ItemValue(prepareInputMediaParam(config.Media, 0))
    IN  IF base.err # "nil"
        THEN [params |-> base.params, err |-> base.err, media |-> NoMedia]
        ELSE [params |-> AddInterface(base.params, "media", media),
              err |-> AddInterfaceErr(media), media |-> media]

EditMessageMediaConfigFiles(config) == prepareInputMediaFile(config.Media, 0)

\* A params() that touches no memory and hands a media value to AddInterface.
InMemory(result, m) ==
    [params |-> result.params, err |-> result.err, mem |-> m, media |-> result.media]

\* A params() that touches no memory and rewrites no media.
Plain(result, m) ==
    [params |-> result.params, err |-> result.err, mem |-> m, media |-> NoMedia]

\* params() of request r in memory m, by the dynamic type of r.
ParamsOf(r, m) ==
    CASE r.type = "MediaGroupConfig" -> MediaGroupConfigParams(r, m)
      [] r.type = "EditMessageMediaConfig" ->
           InMemory(EditMessageMediaConfigParams(r), m)
      [] r.type = "PhotoConfig"       -> Plain(PhotoConfigParams(r), m)
      [] r.type = "AudioConfig"       -> Plain(AudioConfigParams(r), m)
      [] r.type = "VideoConfig"       -> Plain(VideoConfigParams(r), m)
      [] r.type = "StickerConfig"     -> Plain(StickerConfigParams(r), m)
      [] r.type = "WebhookConfig"     -> Plain(WebhookConfigParams(r), m)
      [] r.type = "PaidMediaConfig"   -> Plain(PaidMediaConfigParams(r), m)
      [] r.type = "SendStickerConfig" -> Plain(SendStickerConfigParams(r), m)
      [] r.type = "SendGameConfig"    -> Plain(SendGameConfigParams(r), m)
      [] r.type = "ChatActionConfig"  -> Plain(ChatActionConfigParams(r), m)
      [] r.type = "ChatConfig"        -> Plain(ChatConfigParams(r), m)
      [] r.type = "UnbanChatMemberConfig" ->
           Plain(UnbanChatMemberConfigParams(r), m)
      [] r.type = "GetChatMenuButtonConfig" ->
           Plain(GetChatMenuButtonConfigParams(r), m)
      [] r.type = "PostStoryConfig"   -> Plain(PostStoryConfigParams(r), m)
      [] r.type = "EditStoryConfig"   -> Plain(EditStoryConfigParams(r), m)
      [] r.type = "DeleteStoryConfig" -> Plain(DeleteStoryConfigParams(r), m)
      [] r.type = "EditMessageTextConfig" ->
           Plain(EditMessageTextConfigParams(r), m)
      [] r.type = "EditMessageCaptionConfig" ->
           Plain(EditMessageCaptionConfigParams(r), m)
      [] r.type = "EditMessageLiveLocationConfig" ->
           Plain(EditMessageLiveLocationConfigParams(r), m)
      [] r.type = "StopMessageLiveLocationConfig" ->
           Plain(StopMessageLiveLocationConfigParams(r), m)
      [] r.type = "EditMessageReplyMarkupConfig" ->
           Plain(EditMessageReplyMarkupConfigParams(r), m)
      [] r.type = "StopPollConfig"    -> Plain(StopPollConfigParams(r), m)
      [] r.type = "SetGameScoreConfig" -> Plain(SetGameScoreConfigParams(r), m)
      [] r.type = "GetGameHighScoresConfig" ->
           Plain(GetGameHighScoresConfigParams(r), m)
      [] r.type = "ForwardConfig"     -> Plain(ForwardConfigParams(r), m)
      [] r.type = "ForwardMsgsConfig" -> Plain(ForwardMsgsConfigParams(r), m)

\* The request types that have a method(); ChatConfig is only embedded.
HasMethod(r) == r.type \notin {"none", "ChatConfig"}

\* method() of request r, by the dynamic type of r.
MethodOf(r) ==
    CASE r.type = "MediaGroupConfig"       -> "sendMediaGroup"
      [] r.type = "EditMessageMediaConfig" -> "editMessageMedia"
      [] r.type = "PhotoConfig"            -> "sendPhoto"
      [] r.type = "AudioConfig"            -> "sendAudio"
      [] r.type = "VideoConfig"            -> "sendVideo"
      [] r.type = "StickerConfig"          -> "sendSticker"
      [] r.type = "WebhookConfig"          -> "setWebhook"
      [] r.type = "PaidMediaConfig"        -> "sendPaidMedia"
      [] r.type = "SendStickerConfig"      -> "sendSticker"
      [] r.type = "SendGameConfig"         -> "sendGame"
      [] r.type = "ChatActionConfig"       -> "sendChatAction"
      [] r.type = "UnbanChatMemberConfig"  -> "unbanChatMember"
      [] r.type = "GetChatMenuButtonConfig" -> "getChatMenuButton"
      [] r.type = "PostStoryConfig"        -> "postStory"
      [] r.type = "EditStoryConfig"        -> "editStory"
      [] r.type = "DeleteStoryConfig"      -> "deleteStory"
      [] r.type = "EditMessageTextConfig"  -> "editMessageText"
      [] r.type = "EditMessageCaptionConfig" -> "editMessageCaption"
      [] r.type = "EditMessageLiveLocationConfig" -> "editMessageLiveLocation"
      [] r.type = "StopMessageLiveLocationConfig" -> "stopMessageLiveLocation"
      [] r.type = "EditMessageReplyMarkupConfig" -> "editMessageReplyMarkup"
      [] r.type = "StopPollConfig"         -> "stopPoll"
      [] r.type = "SetGameScoreConfig"     -> "setGameScore"
      [] r.type = "GetGameHighScoresConfig" -> "getGameHighScores"
      [] r.type = "ForwardConfig"          -> "forwardMessage"
      [] r.type = "ForwardMsgsConfig"      -> "forwardMessage"

\* The request types that implement Fileable.
IsFileable(r) == r.type \in {"MediaGroupConfig", "EditMessageMediaConfig", "PhotoConfig",
                             "AudioConfig", "VideoConfig", "StickerConfig",
                             "WebhookConfig", "PaidMediaConfig"}

\* files() of request r in memory m, by the dynamic type of r.
FilesOf(r, m) ==
    CASE r.type = "MediaGroupConfig"       -> MediaGroupConfigFiles(r, m)
      [] r.type = "EditMessageMediaConfig" -> EditMessageMediaConfigFiles(r)
      [] r.type = "PhotoConfig"            -> PhotoConfigFiles(r)
      [] r.type = "AudioConfig"            -> AudioConfigFiles(r)
      [] r.type = "VideoConfig"            -> VideoConfigFiles(r)
      [] r.type = "StickerConfig"          -> StickerConfigFiles(r)
      [] r.type = "WebhookConfig"          -> WebhookConfigFiles(r)
      [] r.type = "PaidMediaConfig"        -> PaidMediaConfigFiles(r)

\* Dispatch: a multipart submission exactly when the request enumerates a
\* non-empty sequence of Named File Parts, a plain one otherwise.
Submission(params, isFileable, files) ==
    IF isFileable /\ Len(files) > 0
    THEN [kind |-> "multipart", fields |-> params, parts |-> files]
    ELSE [kind |-> "plain", fields |-> params, parts |-> << >>]

\* Outcome of a call of an operation on a value.
Call(op, ref, out) == [op |-> op, ref |-> ref, out |-> out]

\* The two most recent calls.
Remember(calls, c) == IF Len(calls) < 2 THEN Append(calls, c) ELSE <<calls[2], c>>

\* An upload in progress: the os.Open calls made, the reads of each stream,
\* the UploadData calls and the error that ended it ("nil": none).
UploadState(o, c, calls, err) ==
    [opened |-> o, consumed |-> c, calls |-> calls, err |-> err]

\* The body of a multipart submission is written part by part, in order: a
\* part that requires upload is obtained with UploadData() and its stream
\* copied into the body, any other is written as the field SendData()
\* gives.  The first error ends the upload.
RECURSIVE UploadFiles(_, _, _, _)
UploadFiles(parts, k, files, st) ==
    IF k > Len(parts) \/ st.err # "nil" THEN st
    ELSE LET d == parts[k].Data
         IN  IF d = NilRef
             THEN UploadState(st.opened, st.consumed, st.calls,
                              "panic: nil pointer dereference")
             ELSE IF ~NeedsUpload(d) THEN UploadFiles(parts, k + 1, files, st)
             ELSE LET out == UploadData(d, files)
                      rd  == out.ret.reader
                      c   == IF "stream" \in DOMAIN rd
                             THEN [s \in DOMAIN st.consumed |->
                                     IF s = rd.stream THEN st.consumed[s] + 1
                                     ELSE st.consumed[s]]
                             ELSE st.consumed
                  IN  UploadFiles(parts, k + 1, files,
                        UploadState(st.opened \cup OpenCalls(d), c,
                                    Remember(st.calls, Call("UploadData", d, out)),
                                    out.ret.err))

\* What Dispatch did with a request: the submission, or "aborted" when
\* params() failed, and the error it returns to the caller.
Sent(submission, err) ==
    [kind |-> submission.kind, fields |-> submission.fields,
     parts |-> submission.parts, err |-> err]

(***************************************************************************)
(* What the caller can build.                                              *)
(***************************************************************************)
MediaRefs == {FileBytes("b.png", "Yg=="), FileURL("http://u/v.mp4")}

ThumbRefs == {FilePath("t.jpg"), FileID("tid")}

\* The references a caller can construct (fileAttach is unexported).
CallerRefs ==
    MediaRefs \cup ThumbRefs
      \cup {FilePath("a.jpg"), FileReader("r.bin", "stream1"), FileID("fid")}

AllRefs == CallerRefs \cup {fileAttach(AttachName(0)), fileAttach(AttachThumbName(1))}

Paths == {r.val : r \in {x \in AllRefs : x.kind = "FilePath"}}

\* The caller-supplied streams.
Streams == {r.Reader : r \in {x \in AllRefs : x.kind = "FileReader"}}

TypeOf(variant) ==
    CASE variant \in {"InputMediaPhoto", "*InputMediaPhoto"} -> "photo"
      [] variant = "InputMediaVideo"     -> "video"
      [] variant = "InputMediaAnimation" -> "animation"
      [] variant = "InputMediaAudio"     -> "audio"
      [] variant = "InputMediaDocument"  -> "document"

\* Every item carries its required Media reference (the rewriter calls
\* m.Media.NeedsUpload() without a nil test); the thumbnail may be nil.
Items ==
    {[variant |-> v, Type |-> TypeOf(v), Media |-> md] :
        v \in NoThumbVariants, md \in MediaRefs}
    \cup
    {[variant |-> v, Type |-> TypeOf(v), Media |-> md, Thumb |-> th] :
        v \in ThumbVariants, md \in MediaRefs, th \in ThumbRefs \cup {NilRef}}

PaidMedia == {<< >>, <<RequestFile("m0", FilePath("a.jpg"))>>,
              <<RequestFile("m0", FileURL("http://u/v.mp4"))>>}

FileRequests ==
    {PhotoConfig(f, t) : f \in CallerRefs \cup {NilRef}, t \in ThumbRefs \cup {NilRef}}
    \cup {AudioConfig(f, t) : f \in CallerRefs \cup {NilRef}, t \in ThumbRefs \cup {NilRef}}
    \cup {VideoConfig(f, t) : f \in CallerRefs \cup {NilRef}, t \in ThumbRefs \cup {NilRef}}
    \cup {StickerConfig(f) : f \in CallerRefs \cup {NilRef}}
    \cup {WebhookConfig(c) : c \in CallerRefs \cup {NilRef}}
    \cup {PaidMediaConfig(md) : md \in PaidMedia}
    \cup {SendStickerConfig(st) : st \in CallerRefs \cup {NilRef}}

\* The chat targets a caller can give: an ID, a username, both or neither,
\* with no keyboard, a keyboard, or a value that cannot be serialised behind
\* the interface{} of ReplyMarkup.
Chats ==
    {[BaseChat(id) EXCEPT !.ChannelUsername = name, !.ReplyMarkup = markup] :
        id \in {0, 42}, name \in {"", "@chan"},
        markup \in {NilValue, JSONValue("{\"inline_keyboard\":[]}"), Unsupported}}

ZeroContent == InputStoryContent("", "")

Contents == {ZeroContent, InputStoryContent("photo", "test_photo_id")}

StoryRequests ==
    {PostStoryConfig(id, content, period, caption, toChatPage, protect) :
        id \in {"", "test_connection"}, content \in Contents, period \in {0, 86400},
        caption \in {"", "Test story caption"}, toChatPage \in BOOLEAN,
        protect \in BOOLEAN}
    \cup {EditStoryConfig(id, storyID, content, caption, toChatPage, protect) :
        id \in {"", "test_connection"}, storyID \in {0, 12345}, content \in Contents,
        caption \in {"", "Updated story caption"}, toChatPage \in BOOLEAN,
        protect \in BOOLEAN}
    \cup {DeleteStoryConfig(id, storyID) :
        id \in {"", "test_connection"}, storyID \in {0, 67890}}

ParamRequests ==
    {[PhotoConfig(FileID("fid"), NilRef) EXCEPT !.BaseChat = chat] : chat \in Chats}
    \cup {[StickerConfig(FileID("fid")) EXCEPT !.BaseChat = chat] : chat \in Chats}
    \cup {SendGameConfig(chat, "game") : chat \in Chats}
    \cup {ChatActionConfig(chat, action) : chat \in Chats, action \in {"", "typing"}}
    \cup {ChatConfig(id, name) : id \in {0, 42}, name \in {"", "@group"}}
    \cup {UnbanChatMemberConfig(id, group, chan, user) :
            id \in {0, 42}, group \in {"", "@group"}, chan \in {"", "@chan"},
            user \in {0, 7}}
    \cup {GetChatMenuButtonConfig(id, name) : id \in {0, 42}, name \in {"", "@chan"}}
    \cup StoryRequests

\* The message targets a caller can give an edit: any combination of chat
\* ID, channel username, message ID and inline message ID, with or without
\* a keyboard.
BaseEdits ==
    {[ChatID |-> id, ChannelUsername |-> name, MessageID |-> messageID,
      InlineMessageID |-> inline, ReplyMarkup |-> markup,
      BusinessConnectionID |-> "", LinkPreviewOptions |-> NilValue] :
        id \in {0, 42}, name \in {"", "@chan"}, messageID \in {0, 7},
        inline \in {"", "inline1"},
        markup \in {NilValue, JSONValue("{\"inline_keyboard\":[]}")}}

EditRequests ==
    {EditMessageTextConfig(edit, "hi") : edit \in BaseEdits}
    \cup {EditMessageCaptionConfig(edit, "hi") : edit \in BaseEdits}
    \cup {EditMessageLiveLocationConfig(edit, latitude, 2) :
            edit \in BaseEdits, latitude \in {0, 1}}
    \cup {StopMessageLiveLocationConfig(edit) : edit \in BaseEdits}
    \cup {EditMessageReplyMarkupConfig(edit) : edit \in BaseEdits}
    \cup {StopPollConfig(edit) : edit \in BaseEdits}
    \cup {[EditMessageMediaConfig(item) EXCEPT !.BaseEdit = edit] :
            edit \in BaseEdits,
            item \in {i \in Items : i.variant = "InputMediaPhoto"
                                     /\ i.Media = FileID("fid")}}

GameRequests ==
    {SetGameScoreConfig(7, score, id, name, messageID, inline) :
        score \in {0, 100}, id \in {0, 42}, name \in {"", "@chan"},
        messageID \in {0, 7}, inline \in {"", "inline1"}}
    \cup {GetGameHighScoresConfig(7, id, name, messageID, inline) :
        id \in {0, 42}, name \in {"", "@chan"}, messageID \in {0, 7},
        inline \in {"", "inline1"}}

ForwardRequests ==
    {ForwardConfig(chat, from, messageID) :
        chat \in Chats, from \in {0, 43}, messageID \in {0, 7}}
    \cup {ForwardMsgsConfig(chat, from, messageIDs) :
        chat \in Chats, from \in {0, 43},
        messageIDs \in {JSONValue("null"), JSONValue("[7,8]")}}

WireRequests == EditRequests \cup GameRequests \cup ForwardRequests

NoRequest == [type |-> "none"]

Unset == [set |-> FALSE]

Set(v) == [set |-> TRUE, v |-> v]

\* What the caller holds after params(): the mapping and the error.
Got(v, err) == [set |-> TRUE, v |-> v, err |-> err]

(***************************************************************************)
(* Inbound updates.  An Update is a record of optional sub-payloads, each  *)
(* a pointer: NilPtr when absent.  Only the fields SentFrom and FromChat   *)
(* read are kept, in the payloads as in the Update.                        *)
(***************************************************************************)
NilPtr == [nil |-> TRUE]

User(id) == [nil |-> FALSE, ID |-> id]

Chat(id) == [nil |-> FALSE, ID |-> id]

\* The sub-payload fields of Update, in declaration order.
UpdateFields ==
    <<"Message", "EditedMessage", "ChannelPost", "EditedChannelPost",
      "BusinessConnection", "BusinessMessage", "EditedBusinessMessage",
      "DeletedBusinessMessages", "MessageReaction", "MessageReactionCount",
      "InlineQuery", "ChosenInlineResult", "CallbackQuery", "ShippingQuery",
      "PreCheckoutQuery", "PollAnswer", "MyChatMember", "ChatMember",
      "ChatJoinRequest", "ChatBoost", "RemovedChatBoost">>

FieldNames == {UpdateFields[i] : i \in DOMAIN UpdateFields}

FieldIndex(f) == CHOOSE i \in DOMAIN UpdateFields : UpdateFields[i] = f

\* The Update with no sub-payload populated.
NoUpdate == [f \in FieldNames |-> NilPtr]

\* The values of sub-payload f that occur: with its user and chat both
\* missing or both given (numbered after the field), and for a callback
\* query with its message missing or given.
Payloads(f) ==
    LET none == NilPtr
        user == User(FieldIndex(f))
        chat == Chat(FieldIndex(f))
    IN  CASE f \in {"Message", "EditedMessage", "ChannelPost", "EditedChannelPost",
                    "BusinessMessage", "EditedBusinessMessage"} ->
               {[nil |-> FALSE, From |-> none, Chat |-> none],
                [nil |-> FALSE, From |-> user, Chat |-> chat]}
          [] f \in {"BusinessConnection", "PollAnswer"} ->
               {[nil |-> FALSE, User |-> none], [nil |-> FALSE, User |-> user]}
          [] f = "MessageReaction" ->
               {[nil |-> FALSE, User |-> none, Chat |-> none],
                [nil |-> FALSE, User |-> user, Chat |-> chat]}
          [] f \in {"DeletedBusinessMessages", "MessageReactionCount", "ChatBoost",
                    "RemovedChatBoost"} ->
               {[nil |-> FALSE, Chat |-> none], [nil |-> FALSE, Chat |-> chat]}
          [] f \in {"InlineQuery", "ChosenInlineResult", "ShippingQuery",
                    "PreCheckoutQuery"} ->
               {[nil |-> FALSE, From |-> none], [nil |-> FALSE, From |-> user]}
          [] f = "CallbackQuery" ->
               {[nil |-> FALSE, From |-> none, Message |-> none],
                [nil |-> FALSE, From |-> user, Message |-> none],
                [nil |-> FALSE, From |-> user,
                 Message |-> [nil |-> FALSE, From |-> user, Chat |-> chat]]}
          [] f \in {"MyChatMember", "ChatMember", "ChatJoinRequest"} ->
               {[nil |-> FALSE, From |-> none, Chat |-> none],
                [nil |-> FALSE, From |-> user, Chat |-> chat]}

\* The Updates with at most k sub-payloads populated.
RECURSIVE UpdatesWith(_)
UpdatesWith(k) ==
    IF k = 0 THEN {NoUpdate}
    ELSE LET less == UpdatesWith(k - 1)
         IN  less \cup {[u EXCEPT ![f] = p] :
                          <<u, f, p>> \in {<<v, g, q>> \in
                              less \X FieldNames \X UNION {Payloads(h) : h \in FieldNames} :
                              q \in Payloads(g)}}

Updates == UpdatesWith(MaxPayloads)

\* SentFrom with the callback query consulted before the inline query.
SentFromCallbackFirst(u) ==
    IF ~u.Message.nil THEN Return(u.Message.From)
    ELSE IF ~u.EditedMessage.nil THEN Return(u.EditedMessage.From)
    ELSE IF ~u.ChannelPost.nil THEN Return(u.ChannelPost.From)
    ELSE IF ~u.EditedChannelPost.nil THEN Return(u.EditedChannelPost.From)
    ELSE IF ~u.BusinessConnection.nil THEN Return(u.BusinessConnection.User)
    ELSE IF ~u.BusinessMessage.nil THEN Return(u.BusinessMessage.From)
    ELSE IF ~u.EditedBusinessMessage.nil THEN Return(u.EditedBusinessMessage.From)
    ELSE IF ~u.MessageReaction.nil THEN Return(u.MessageReaction.User)
    ELSE IF ~u.CallbackQuery.nil THEN Return(u.CallbackQuery.From)
    ELSE IF ~u.InlineQuery.nil THEN Return(u.InlineQuery.From)
    ELSE IF ~u.ChosenInlineResult.nil THEN Return(u.ChosenInlineResult.From)
    ELSE IF ~u.ShippingQuery.nil THEN Return(u.ShippingQuery.From)
    ELSE IF ~u.PreCheckoutQuery.nil THEN Return(u.PreCheckoutQuery.From)
    ELSE IF ~u.PollAnswer.nil THEN Return(u.PollAnswer.User)
    ELSE IF ~u.ChatMember.nil THEN Return(u.ChatMember.From)
    ELSE IF ~u.ChatJoinRequest.nil THEN Return(u.ChatJoinRequest.From)
    ELSE Return(NilPtr)

\* Update.SentFrom: the first case of the switch whose sub-payload is not
\* nil returns that sub-payload's user.
SentFrom(u) ==
    IF ~u.Message.nil THEN Return(u.Message.From)
    ELSE IF ~u.EditedMessage.nil THEN Return(u.EditedMessage.From)
    ELSE IF ~u.ChannelPost.nil THEN Return(u.ChannelPost.From)
    ELSE IF ~u.EditedChannelPost.nil THEN Return(u.EditedChannelPost.From)
    ELSE IF ~u.BusinessConnection.nil THEN Return(u.BusinessConnection.User)
    ELSE IF ~u.BusinessMessage.nil THEN Return(u.BusinessMessage.From)
    ELSE IF ~u.EditedBusinessMessage.nil THEN Return(u.EditedBusinessMessage.From)
    ELSE IF ~u.MessageReaction.nil THEN Return(u.MessageReaction.User)
    ELSE IF ~u.InlineQuery.nil THEN Return(u.InlineQuery.From)
    ELSE IF ~u.ChosenInlineResult.nil THEN Return(u.ChosenInlineResult.From)
    ELSE IF ~u.CallbackQuery.nil THEN Return(u.CallbackQuery.From)
    ELSE IF ~u.ShippingQuery.nil THEN Return(u.ShippingQuery.From)
    ELSE IF ~u.PreCheckoutQuery.nil THEN Return(u.PreCheckoutQuery.From)
    ELSE IF ~u.PollAnswer.nil THEN Return(u.PollAnswer.User)
    ELSE IF ~u.ChatMember.nil THEN Return(u.ChatMember.From)
    ELSE IF ~u.ChatJoinRequest.nil THEN Return(u.ChatJoinRequest.From)
    ELSE Return(NilPtr)

\* Update.FromChat: as SentFrom, over the sub-payloads that have a chat.
\* The callback query's chat is read through its Message pointer.
FromChat(u) ==
    IF ~u.Message.nil THEN Return(u.Message.Chat)
    ELSE IF ~u.EditedMessage.nil THEN Return(u.EditedMessage.Chat)
    ELSE IF ~u.ChannelPost.nil THEN Return(u.ChannelPost.Chat)
    ELSE IF ~u.EditedChannelPost.nil THEN Return(u.EditedChannelPost.Chat)
    ELSE IF ~u.BusinessMessage.nil THEN Return(u.BusinessMessage.Chat)
    ELSE IF ~u.EditedBusinessMessage.nil THEN Return(u.EditedBusinessMessage.Chat)
    ELSE IF ~u.DeletedBusinessMessages.nil THEN Return(u.DeletedBusinessMessages.Chat)
    ELSE IF ~u.MessageReaction.nil THEN Return(u.MessageReaction.Chat)
    ELSE IF ~u.MessageReactionCount.nil THEN Return(u.MessageReactionCount.Chat)
    ELSE IF ~u.CallbackQuery.nil
         THEN (IF u.CallbackQuery.Message.nil
               THEN Panic("invalid memory address or nil pointer dereference")
               ELSE Return(u.CallbackQuery.Message.Chat))
    ELSE IF ~u.MyChatMember.nil THEN Return(u.MyChatMember.Chat)
    ELSE IF ~u.ChatMember.nil THEN Return(u.ChatMember.Chat)
    ELSE IF ~u.ChatJoinRequest.nil THEN Return(u.ChatJoinRequest.Chat)
    ELSE IF ~u.ChatBoost.nil THEN Return(u.ChatBoost.Chat)
    ELSE IF ~u.RemovedChatBoost.nil THEN Return(u.RemovedChatBoost.Chat)
    ELSE Return(NilPtr)

(***************************************************************************)
(* The inbound envelope.  On the wire it is a JSON object, here a function *)
(* from the keys that are present to their values; json.Unmarshal fills an *)
(* APIResponse from it, leaving the zero value for every absent key.       *)
(***************************************************************************)
Keys(object) == DOMAIN object

\* ResponseParameters{MigrateToChatID, RetryAfter}
ResponseParameters(migrate, retry) ==
    [nil |-> FALSE, MigrateToChatID |-> migrate, RetryAfter |-> retry]

ZeroResponseParameters == ResponseParameters(0, 0)

\* json.Unmarshal into *ResponseParameters
UnmarshalParameters(object) ==
    ResponseParameters(
        IF "migrate_to_chat_id" \in Keys(object) THEN object.migrate_to_chat_id ELSE 0,
        IF "retry_after" \in Keys(object) THEN object.retry_after ELSE 0)

\* json.Unmarshal into APIResponse; Result stays raw and is not looked at.
UnmarshalAPIResponse(object) ==
    [Ok          |-> IF "ok" \in Keys(object) THEN object.ok ELSE FALSE,
     ErrorCode   |-> IF "error_code" \in Keys(object) THEN object.error_code ELSE 0,
     Description |-> IF "description" \in Keys(object) THEN object.description ELSE "",
     Parameters  |-> IF "parameters" \in Keys(object)
                     THEN UnmarshalParameters(object.parameters)
                     ELSE NilPtr]

\* Error{Code, Message, ResponseParameters}
Error(code, message, parameters) ==
    [nil |-> FALSE, Code |-> code, Message |-> message,
     MigrateToChatID |-> parameters.MigrateToChatID,
     RetryAfter |-> parameters.RetryAfter]

\* func (e Error) Error() string
ErrorString(e) == e.Message

\* The typed error built without the structured parameters.
ErrorOfWithoutParameters(apiResp) ==
    IF apiResp.Ok THEN NilPtr
    ELSE Error(apiResp.ErrorCode, apiResp.Description, ZeroResponseParameters)

\* The error a decoded envelope yields: none when ok, otherwise the typed
\* Error from its code, description and parameters.
ErrorOf(apiResp) ==
    IF apiResp.Ok THEN NilPtr
    ELSE Error(apiResp.ErrorCode, apiResp.Description,
               IF apiResp.Parameters.nil THEN ZeroResponseParameters
               ELSE apiResp.Parameters)

\* The envelopes that arrive.
WireParameters ==
    { << >>,
      [retry_after |-> 5],
      [migrate_to_chat_id |-> 0 - 1001],
      [retry_after |-> 5, migrate_to_chat_id |-> 0 - 1001] }

WireResponses ==
    { [k \in K |-> w[k]] :
        <<K, w>> \in (SUBSET {"ok", "error_code", "description", "parameters"}) \X
                     [ok : BOOLEAN, error_code : {400, 429},
                      description : {"Bad Request", "Too Many Requests"},
                      parameters : WireParameters] }

NoResponse == << >>

\* A Message with no text and no entities.
NoMessage == [Text |-> << >>, Entities |-> << >>]

\* No goroutine is in Clear.
NotClearing == [pc |-> "idle", mark |-> 0, dropped |-> 0]

\* Nothing has arrived: no envelope, no message, an empty channel.
NothingInbound ==
    /\ resp = NoResponse
    /\ inMessage = NoMessage
    /\ ch = << >>
    /\ sent = 0
    /\ clearing = NotClearing
    /\ later = << >>

\* The caller has built nothing.
NothingOutbound ==
    /\ pc = "idle"
    /\ req = NoRequest
    /\ mem = [a \in {CallerAddr} |-> << >>]
    /\ orig = << >>
    /\ outParams = Unset
    /\ outMedia = Unset
    /\ outFiles = Unset
    /\ fs = {}
    /\ sub = Unset
    /\ opened = {}
    /\ consumed = [s \in Streams |-> 0]

(***************************************************************************)
(* The caller: builds one request, then calls params(), files() or         *)
(* submits it, any number of times and in any order, then drops it.        *)
(***************************************************************************)
Init ==
    /\ pc = "idle"
    /\ req = NoRequest
    /\ mem = [a \in {CallerAddr} |-> << >>]
    /\ orig = << >>
    /\ outParams = Unset
    /\ outMedia = Unset
    /\ outFiles = Unset
    /\ fs = {}
    /\ lastCall = << >>
    /\ sub = Unset
    /\ opened = {}
    /\ consumed = [s \in Streams |-> 0]
    /\ update = NoUpdate
    /\ NothingInbound

\* var media []interface{}; config := MediaGroupConfig{Media: media}
NewMediaGroup ==
    /\ pc = "idle"
    /\ pc' = "building"
    /\ req' = MediaGroupConfig(CallerAddr)
    /\ mem' = [a \in {CallerAddr} |-> << >>]
    /\ UNCHANGED <<orig, outParams, outMedia, outFiles, fs, lastCall, sub,
                   opened, consumed, update, inbound>>

\* config.Media = append(config.Media, item)
AppendMedia(item) ==
    /\ pc = "building"
    /\ Len(mem[CallerAddr]) < MaxItems
    /\ mem' = [mem EXCEPT ![CallerAddr] = Append(@, item)]
    /\ UNCHANGED <<pc, req, orig, outParams, outMedia, outFiles, fs, lastCall, sub,
                   opened, consumed, update, inbound>>

\* The caller is done building and remembers what it built.
FinishMediaGroup ==
    /\ pc = "building"
    /\ pc' = "built"
    /\ orig' = mem[CallerAddr]
    /\ UNCHANGED <<req, mem, outParams, outMedia, outFiles, fs, lastCall, sub,
                   opened, consumed, update, inbound>>

NewEditMessageMedia(item) ==
    /\ pc = "idle"
    /\ pc' = "built"
    /\ req' = EditMessageMediaConfig(item)
    /\ orig' = <<item>>
    /\ UNCHANGED <<mem, outParams, outMedia, outFiles, fs, lastCall, sub,
                   opened, consumed, update, inbound>>

NewFileRequest(r) ==
    /\ pc = "idle"
    /\ pc' = "built"
    /\ req' = r
    /\ orig' = << >>
    /\ UNCHANGED <<mem, outParams, outMedia, outFiles, fs, lastCall, sub,
                   opened, consumed, update, inbound>>

CallParams ==
    /\ pc = "built"
    /\ \E r \in {ParamsOf(req, mem)} :
           /\ outParams' = Got(r.params, r.err)
           /\ outMedia' = Set(r.media)
           /\ mem' = r.mem
    /\ UNCHANGED <<pc, req, orig, outFiles, fs, lastCall, sub,
                   opened, consumed, update, inbound>>

CallFiles ==
    /\ pc = "built"
    /\ IsFileable(req)
    /\ outFiles' = Set(FilesOf(req, mem))
    /\ UNCHANGED <<pc, req, mem, orig, outParams, outMedia, fs, lastCall, sub,
                   opened, consumed, update, inbound>>

\* Dispatch calls params(), then files() when the request is Fileable, and
\* chooses the submission.
Submit ==
    /\ pc = "built"
    /\ \E r \in {ParamsOf(req, mem)} :
       \E files \in {IF IsFileable(req) THEN FilesOf(req, r.mem) ELSE << >>} :
           /\ outParams' = Got(r.params, r.err)
           /\ outMedia' = Set(r.media)
           /\ mem' = r.mem
           /\ outFiles' = IF IsFileable(req) THEN Set(files) ELSE outFiles
           /\ sub' = Set(Submission(r.params, IsFileable(req), files))
    /\ UNCHANGED <<pc, req, orig, fs, lastCall, opened, consumed, update, inbound>>

\* The caller drops the request and everything computed from it, its
\* streams included: the next request is built over fresh ones.
Discard ==
    /\ pc = "built"
    /\ pc' = "idle"
    /\ req' = NoRequest
    /\ mem' = [a \in {CallerAddr} |-> << >>]
    /\ orig' = << >>
    /\ outParams' = Unset
    /\ outMedia' = Unset
    /\ outFiles' = Unset
    /\ sub' = Unset
    /\ opened' = {}
    /\ consumed' = [s \in Streams |-> 0]
    /\ lastCall' = << >>
    /\ UNCHANGED <<fs, update, inbound>>

Next ==
    \/ NewMediaGroup
    \/ \E item \in Items : AppendMedia(item)
    \/ FinishMediaGroup
    \/ \E item \in Items : NewEditMessageMedia(item)
    \/ \E r \in FileRequests : NewFileRequest(r)
    \/ CallParams
    \/ CallFiles
    \/ Submit
    \/ Discard

Spec == Init /\ [][Next]_vars

(***************************************************************************)
(* File Reference operations on their own: any holder of a reference calls *)
(* NeedsUpload, SendData or UploadData on it, while local files come and   *)
(* go.  lastCall keeps the two most recent calls.                          *)
(***************************************************************************)
InitRef ==
    /\ pc = "idle"
    /\ req = NoRequest
    /\ mem = [a \in {CallerAddr} |-> << >>]
    /\ orig = << >>
    /\ outParams = Unset
    /\ outMedia = Unset
    /\ outFiles = Unset
    /\ fs \in SUBSET Paths
    /\ lastCall = << >>
    /\ sub = Unset
    /\ opened = {}
    /\ consumed = [s \in Streams |-> 0]
    /\ update = NoUpdate
    /\ NothingInbound

CallNeedsUpload(r) ==
    /\ lastCall' = Remember(lastCall, Call("NeedsUpload", r, Return(NeedsUpload(r))))
    /\ UNCHANGED <<pc, req, mem, orig, outParams, outMedia, outFiles, fs, sub,
                   opened, consumed, update, inbound>>

CallSendData(r) ==
    /\ lastCall' = Remember(lastCall, Call("SendData", r, SendData(r)))
    /\ UNCHANGED <<pc, req, mem, orig, outParams, outMedia, outFiles, fs, sub,
                   opened, consumed, update, inbound>>

CallUploadData(r) ==
    /\ lastCall' = Remember(lastCall, Call("UploadData", r, UploadData(r, fs)))
    /\ opened' = opened \cup OpenCalls(r)
    /\ UNCHANGED <<pc, req, mem, orig, outParams, outMedia, outFiles, fs, sub,
                   consumed, update, inbound>>

\* The environment creates or removes a local file.
ToggleFile(path) ==
    /\ fs' = IF path \in fs THEN fs \ {path} ELSE fs \cup {path}
    /\ UNCHANGED <<pc, req, mem, orig, outParams, outMedia, outFiles, lastCall, sub,
                   opened, consumed, update, inbound>>

NextRef ==
    \/ \E r \in AllRefs : CallNeedsUpload(r)
    \/ \E r \in AllRefs : CallSendData(r)
    \/ \E r \in AllRefs : CallUploadData(r)
    \/ \E path \in Paths : ToggleFile(path)

SpecRef == InitRef /\ [][NextRef]_vars

(***************************************************************************)
(* Submission with upload: the caller builds a single-file request and     *)
(* calls params(), files() or sends it, any number of times, while local   *)
(* files come and go.  Send is Dispatch as a whole: params(), files(), the *)
(* choice of the submission and the writing of its parts.                  *)
(***************************************************************************)
Send ==
    /\ pc = "built"
    /\ \A s \in Streams : consumed[s] < MaxReads
    /\ \E r \in {ParamsOf(req, mem)} :
         IF r.err # "nil"
         THEN \* params() failed: nothing is written.
              /\ outParams' = Got(r.params, r.err)
              /\ outMedia' = Set(r.media)
              /\ mem' = r.mem
              /\ sub' = Set(Sent([kind |-> "aborted", fields |-> NoParams,
                                  parts |-> << >>], r.err))
              /\ lastCall' = << >>
              /\ UNCHANGED <<outFiles, opened, consumed>>
         ELSE \E s0 \in {Submission(r.params, IsFileable(req),
                                    IF IsFileable(req) THEN FilesOf(req, r.mem)
                                    ELSE << >>)} :
              \E st \in {UploadFiles(s0.parts, 1, fs,
                                     UploadState(opened, consumed, << >>, "nil"))} :
                /\ outParams' = Got(r.params, r.err)
                /\ outMedia' = Set(r.media)
                /\ mem' = r.mem
                /\ outFiles' = IF IsFileable(req) THEN Set(FilesOf(req, r.mem))
                               ELSE outFiles
                /\ sub' = Set(Sent(s0, st.err))
                /\ opened' = st.opened
                /\ consumed' = st.consumed
                /\ lastCall' = st.calls
    /\ UNCHANGED <<pc, req, orig, fs, update, inbound>>

\* The caller constructs any request.
NewRequest(r) ==
    /\ pc = "idle"
    /\ pc' = "built"
    /\ req' = r
    /\ orig' = << >>
    /\ UNCHANGED <<mem, outParams, outMedia, outFiles, fs, lastCall, sub,
                   opened, consumed, update, inbound>>

NextUpload ==
    \/ \E r \in FileRequests : NewFileRequest(r)
    \/ CallParams
    \/ CallFiles
    \/ Send
    \/ Discard
    \/ \E path \in Paths : ToggleFile(path)

SpecUpload == InitRef /\ [][NextUpload]_vars

(***************************************************************************)
(* Parameter building: the caller builds a request of any of the types     *)
(* below with its fields set or left at their zero values, calls params()  *)
(* or files() on it, or sends it.                                          *)
(***************************************************************************)
NextParams ==
    \/ \E r \in ParamRequests : NewRequest(r)
    \/ CallParams
    \/ CallFiles
    \/ Send
    \/ Discard

SpecParams == Init /\ [][NextParams]_vars

(***************************************************************************)
(* Wire names: the caller builds an edit, game or forward request and asks *)
(* for its method name and its mapping.                                    *)
(***************************************************************************)
CallMethod ==
    /\ pc = "built"
    /\ HasMethod(req)
    /\ lastCall' = <<Call("method", req, Return(MethodOf(req)))>>
    /\ UNCHANGED <<outbound, update, inbound>>

NextWire ==
    \/ \E r \in WireRequests : NewRequest(r)
    \/ CallMethod
    \/ CallParams
    \/ Discard

SpecWire == Init /\ [][NextWire]_vars

(***************************************************************************)
(* Repeated queries.  The caller builds any request and calls method(),    *)
(* params() and files() on it any number of times, in any order.  lastCall *)
(* keeps, for each of the three, its first call and its latest one, each   *)
(* with the request value it was made on.  Every params() returns a map it *)
(* made itself; the caller keeps the maps in mem, by address, and may      *)
(* write to them.                                                          *)
(***************************************************************************)
ParamsAddrs == {"params1", "params2"}

\* The request value as the caller sees it: its fields and, behind its
\* Media slice, the caller's array.
Receiver(r, m) == [req |-> r, media |-> m[CallerAddr]]

\* The positions of the calls of operation op in the history.
CallsOf(calls, op) == {i \in DOMAIN calls : calls[i].op = op}

IsMethodCall(c) == c.op = "method"

IsParamsCall(c) == c.op = "params"

IsFilesCall(c) == c.op = "files"

\* The history with call c: the first call of each operation stays, the
\* latest replaces the one before it.  The calls are listed by operation,
\* and in call order within one operation.
RememberByOp(calls, c) ==
    LET same == CallsOf(calls, c.op)
        kept == IF Cardinality(same) < 2 THEN Append(calls, c)
                ELSE [calls EXCEPT ![CHOOSE i \in same : \A j \in same : j <= i] = c]
    IN  SelectSeq(kept, IsMethodCall) \o SelectSeq(kept, IsParamsCall)
          \o SelectSeq(kept, IsFilesCall)

\* The addresses of the maps that the calls still remembered returned,
\* once the next params() call has taken its place in the history.
LiveParams(calls) ==
    LET same == CallsOf(calls, "params")
    IN  IF Cardinality(same) < 2 THEN {calls[i].out.ret.addr : i \in same}
        ELSE {calls[CHOOSE i \in same : \A j \in same : i <= j].out.ret.addr}

\* params := make(Params): a map at an address no live map has.
NewParams(live) == CHOOSE a \in ParamsAddrs : a \notin live

\* The caller's key, which no request writes.
CallerKey == "added_by_caller"

Albums == UNION {[1..n -> Items] : n \in 0..MaxAlbum}

AllRequests == FileRequests \cup GameRequests \cup ForwardRequests

\* config := MediaGroupConfig{Media: items}
NewAlbum(items) ==
    /\ pc = "idle"
    /\ pc' = "built"
    /\ req' = MediaGroupConfig(CallerAddr)
    /\ mem' = [a \in {CallerAddr} |-> items]
    /\ orig' = items
    /\ UNCHANGED <<outParams, outMedia, outFiles, fs, lastCall, sub,
                   opened, consumed, update, inbound>>

QueryMethod ==
    /\ pc = "built"
    /\ HasMethod(req)
    /\ lastCall' = RememberByOp(lastCall,
                        Call("method", Receiver(req, mem), Return(MethodOf(req))))
    /\ UNCHANGED <<outbound, update, inbound>>

QueryParams ==
    /\ pc = "built"
    /\ \E r \in {ParamsOf(req, mem)} :
       \E a \in {NewParams(LiveParams(lastCall))} :
           /\ lastCall' = RememberByOp(lastCall,
                               Call("params", Receiver(req, mem),
                                    Return([addr |-> a, params |-> r.params,
                                            err |-> r.err])))
           /\ mem' = [x \in (DOMAIN r.mem) \cup {a} |->
                         IF x = a THEN r.params ELSE r.mem[x]]
    /\ UNCHANGED <<pc, req, orig, outParams, outMedia, outFiles, fs, sub,
                   opened, consumed, update, inbound>>

QueryFiles ==
    /\ pc = "built"
    /\ IsFileable(req)
    /\ lastCall' = RememberByOp(lastCall,
                        Call("files", Receiver(req, mem), Return(FilesOf(req, mem))))
    /\ UNCHANGED <<outbound, update, inbound>>

\* params[key] = "1" on a map that an earlier params() returned.
ModifyMapping(a) ==
    /\ pc = "built"
    /\ a \in DOMAIN mem
    /\ \E i \in CallsOf(lastCall, "params") : lastCall[i].out.ret.addr = a
    /\ CallerKey \notin DOMAIN mem[a]
    /\ mem' = [mem EXCEPT ![a] = Put(@, CallerKey, "1")]
    /\ UNCHANGED <<pc, req, orig, outParams, outMedia, outFiles, fs, lastCall, sub,
                   opened, consumed, update, inbound>>

NextQueries ==
    \/ \E items \in Albums : NewAlbum(items)
    \/ \E item \in Items : NewEditMessageMedia(item)
    \/ \E r \in AllRequests : NewRequest(r)
    \/ QueryMethod
    \/ QueryParams
    \/ QueryFiles
    \/ \E a \in ParamsAddrs : ModifyMapping(a)
    \/ Discard

SpecQueries == Init /\ [][NextQueries]_vars

(***************************************************************************)
(* Event dispatch: a handler holds one inbound Update and asks who sent it *)
(* and in which chat, in any order and any number of times.  lastCall is   *)
(* the most recent query with the Update it was given and its outcome.     *)
(***************************************************************************)
InitUpdate ==
    /\ pc = "idle"
    /\ req = NoRequest
    /\ mem = [a \in {CallerAddr} |-> << >>]
    /\ orig = << >>
    /\ outParams = Unset
    /\ outMedia = Unset
    /\ outFiles = Unset
    /\ fs = {}
    /\ lastCall = << >>
    /\ sub = Unset
    /\ opened = {}
    /\ consumed = [s \in Streams |-> 0]
    /\ update \in Updates
    /\ NothingInbound

\* user := update.SentFrom(); the receiver is a pointer to the Update.
CallSentFrom ==
    /\ lastCall' = <<Call("SentFrom", update, SentFrom(update))>>
    /\ UNCHANGED <<pc, req, mem, orig, outParams, outMedia, outFiles, fs, sub,
                   opened, consumed, update, inbound>>

\* chat := update.FromChat()
CallFromChat ==
    /\ lastCall' = <<Call("FromChat", update, FromChat(update))>>
    /\ UNCHANGED <<pc, req, mem, orig, outParams, outMedia, outFiles, fs, sub,
                   opened, consumed, update, inbound>>

NextUpdate ==
    \/ CallSentFrom
    \/ CallFromChat

SpecUpdate == InitUpdate /\ [][NextUpdate]_vars

(***************************************************************************)
(* Decoding: one envelope has arrived and is decoded, any number of times. *)
(***************************************************************************)
InitDecode ==
    /\ NothingOutbound
    /\ lastCall = << >>
    /\ update = NoUpdate
    /\ resp \in WireResponses
    /\ inMessage = NoMessage
    /\ ch = << >>
    /\ sent = 0
    /\ clearing = NotClearing
    /\ later = << >>

\* json.Unmarshal of the body into an APIResponse, then the error check.
Decode ==
    /\ lastCall = << >>
    /\ \E apiResp \in {UnmarshalAPIResponse(resp)} :
          lastCall' = <<Call("decode", apiResp, Return(ErrorOf(apiResp)))>>
    /\ UNCHANGED <<outbound, update, inbound>>

\* The caller drops the outcome and decodes the envelope again.
Forget ==
    /\ lastCall # << >>
    /\ lastCall' = << >>
    /\ UNCHANGED <<outbound, update, inbound>>

NextDecode ==
    \/ Decode
    \/ Forget

SpecDecode == InitDecode /\ [][NextDecode]_vars

(***************************************************************************)
(* The UpdatesChannel.  Updates are numbered in the order they are sent;   *)
(* ch is the channel's buffer.  One goroutine calls Clear once, another    *)
(* receives from the same channel whenever it likes; the poller sends only *)
(* while Clear is not running.  Clear is two steps per round of its loop:  *)
(* the evaluation of len(ch) and the receive, and other goroutines may act *)
(* between them.                                                           *)
(***************************************************************************)

\* Clear's loop condition evaluated to "stop" whatever the channel holds.
ClearContinuesNever(n) == FALSE

\* for len(ch) != 0
ClearContinues(n) == n # 0

InitClear ==
    /\ NothingOutbound
    /\ lastCall = << >>
    /\ update = NoUpdate
    /\ NothingInbound

\* The poller sends the next update into the buffer.
SendUpdate ==
    /\ clearing.pc \in {"idle", "returned"}
    /\ sent < MaxSent
    /\ sent' = sent + 1
    /\ ch' = Append(ch, sent + 1)
    /\ UNCHANGED <<outbound, lastCall, update, resp, inMessage, clearing, later>>

\* updates.Clear() is called; mark remembers what had been sent by then.
CallClear ==
    /\ clearing.pc = "idle"
    /\ clearing' = [pc |-> "len", mark |-> sent, dropped |-> 0]
    /\ UNCHANGED <<outbound, lastCall, update, resp, inMessage, ch, sent, later>>

\* Clear evaluates its loop condition, and returns when it is false.
ClearLen ==
    /\ clearing.pc = "len"
    /\ clearing' = [pc |-> IF ClearContinues(Len(ch)) THEN "recv" ELSE "returned",
                    mark |-> clearing.mark, dropped |-> clearing.dropped]
    /\ UNCHANGED <<outbound, lastCall, update, resp, inMessage, ch, sent, later>>

\* Clear's receive: <-ch proceeds only when the buffer holds an update.
ClearRecv ==
    /\ clearing.pc = "recv"
    /\ ch # << >>
    /\ ch' = Tail(ch)
    /\ clearing' = [pc |-> "len", mark |-> clearing.mark,
                    dropped |-> clearing.dropped + 1]
    /\ UNCHANGED <<outbound, lastCall, update, resp, inMessage, sent, later>>

\* The other goroutine receives an update; later records what it is given
\* once Clear has returned.
Receive ==
    /\ ch # << >>
    /\ ch' = Tail(ch)
    /\ later' = IF clearing.pc = "returned" THEN Append(later, Head(ch)) ELSE later
    /\ UNCHANGED <<outbound, lastCall, update, resp, inMessage, sent, clearing>>

NextClear ==
    \/ SendUpdate
    \/ CallClear
    \/ ClearLen
    \/ ClearRecv
    \/ Receive

SpecClear == InitClear /\ [][NextClear]_vars

(***************************************************************************)
(* Bot commands.  A string is the sequence of its characters (the texts    *)
(* considered are ASCII, one byte per character); a slice expression       *)
(* panics when its bounds are out of range.                                *)
(***************************************************************************)

\* s[lo:hi]
Slice(s, lo, hi) ==
    IF lo < 0 \/ hi < lo \/ hi > Len(s)
    THEN Panic("slice bounds out of range")
    ELSE Return(SubSeq(s, lo + 1, hi))

\* s[lo:]
SliceFrom(s, lo) == Slice(s, lo, Len(s))

\* strings.Index(s, c) for a one-character c: the first position, or -1.
Index(s, c) ==
    IF \E i \in DOMAIN s : s[i] = c
    THEN (CHOOSE i \in DOMAIN s : s[i] = c /\ \A j \in 1..(i - 1) : s[j] # c) - 1
    ELSE 0 - 1

MessageEntity(type, offset, length) ==
    [Type |-> type, Offset |-> offset, Length |-> length]

\* func (e MessageEntity) IsCommand() bool
EntityIsCommand(e) == e.Type = "bot_command"

\* func (m *Message) IsCommand() bool
IsCommand(m) ==
    IF Len(m.Entities) = 0 THEN FALSE
    ELSE LET entity == m.Entities[1]
         IN  entity.Offset = 0 /\ EntityIsCommand(entity)

\* func (m *Message) CommandWithAt() string
CommandWithAt(m) ==
    IF ~IsCommand(m) THEN Return(<< >>)
    ELSE LET entity == m.Entities[1]
         IN  Slice(m.Text, 1, entity.Length)

\* func (m *Message) Command() string
Command(m) ==
    LET command == CommandWithAt(m)
    IN  IF command.panic THEN command
        ELSE LET i == Index(command.ret, "@")
             IN  IF i # 0 - 1 THEN Slice(command.ret, 0, i) ELSE command

\* func (m *Message) CommandArguments() string
CommandArguments(m) ==
    IF ~IsCommand(m) THEN Return(<< >>)
    ELSE LET entity == m.Entities[1]
         IN  IF Len(m.Text) = entity.Length
             THEN Return(<< >>)
             ELSE SliceFrom(m.Text, entity.Length + 1)

\* The messages that arrive: a short text, and no entity or one entity of
\* any length up to one more than the longest text.
Alphabet == {"/", "f", "@", " "}

Texts == UNION {[1..n -> Alphabet] : n \in 0..MaxText}

EntityLists ==
    {<< >>} \cup
    {<<MessageEntity(type, offset, length)>> :
        type \in {"bot_command", "mention"}, offset \in {0, 1},
        length \in 0..(MaxText + 1)}

Messages == {[Text |-> text, Entities |-> entities] :
                text \in Texts, entities \in EntityLists}

InitCommand ==
    /\ NothingOutbound
    /\ lastCall = << >>
    /\ update = NoUpdate
    /\ resp = NoResponse
    /\ inMessage \in Messages
    /\ ch = << >>
    /\ sent = 0
    /\ clearing = NotClearing
    /\ later = << >>

CallIsCommand ==
    /\ lastCall' = <<Call("IsCommand", inMessage, Return(IsCommand(inMessage)))>>
    /\ UNCHANGED <<outbound, update, inbound>>

CallCommandWithAt ==
    /\ lastCall' = <<Call("CommandWithAt", inMessage, CommandWithAt(inMessage))>>
    /\ UNCHANGED <<outbound, update, inbound>>

CallCommand ==
    /\ lastCall' = <<Call("Command", inMessage, Command(inMessage))>>
    /\ UNCHANGED <<outbound, update, inbound>>

CallCommandArguments ==
    /\ lastCall' = <<Call("CommandArguments", inMessage, CommandArguments(inMessage))>>
    /\ UNCHANGED <<outbound, update, inbound>>

NextCommand ==
    \/ CallIsCommand
    \/ CallCommandWithAt
    \/ CallCommand
    \/ CallCommandArguments

SpecCommand == InitCommand /\ [][NextCommand]_vars

(***************************************************************************)
(* Properties.  The vocabulary below is that of the specification text and *)
(* is independent of the operators that model the code.                    *)
(***************************************************************************)
UploadKinds == {"FilePath", "FileBytes", "FileReader"}

InlineKinds == {"FileURL", "FileID", "fileAttach"}

RequiresUpload(r) == r # NilRef /\ r.kind \in UploadKinds

Recognised == {"InputMediaPhoto", "InputMediaVideo", "InputMediaAudio",
               "InputMediaDocument"}

ThumbOf(m) == IF m.variant \in ThumbVariants THEN m.Thumb ELSE NilRef

IsGroup == pc = "built" /\ req.type = "MediaGroupConfig"

IsEdit == pc = "built" /\ req.type = "EditMessageMediaConfig"

\* The rewritten list returned by the last params() of a media group.
NewMedia == mem[outMedia.v.addr]

\* The parts the documentation promises for item m at index idx.
PromisedParts(m, idx) ==
    (IF RequiresUpload(m.Media) THEN <<RequestFile(FileName(idx), m.Media)>> ELSE << >>)
      \o (IF RequiresUpload(ThumbOf(m))
          THEN <<RequestFile(FileThumbName(idx), ThumbOf(m))>> ELSE << >>)

RECURSIVE PromisedPartsFrom(_, _)
PromisedPartsFrom(items, k) ==
    IF k > Len(items) THEN << >>
    ELSE PromisedParts(items[k], k - 1) \o PromisedPartsFrom(items, k + 1)

\* C1: for a list of Photo, Video, Audio and Document items the parts
\* returned by prepareInputMediaForFiles are, in item order, `file-<i>`
\* wrapping the original media when it requires upload, then `file-<i>-thumb`
\* wrapping the original thumbnail when it is present and requires upload;
\* there is one part per upload-requiring reference.
C1_PartsNamedByPositionAndRole ==
    (IsGroup /\ outFiles.set /\ \A k \in DOMAIN orig : orig[k].variant \in Recognised)
        => outFiles.v = PromisedPartsFrom(orig, 1)

\* C2: the rewritten list has the length and order of the input; a Photo,
\* Video, Audio or Document item has its upload-requiring media replaced by
\* attach://file-<i> and its upload-requiring thumbnail by
\* attach://file-<i>-thumb; every reference that does not require upload,
\* and everything else in the item, is as it was.
C2_RewrittenItems ==
    (IsGroup /\ outMedia.set) =>
        /\ Len(NewMedia) = Len(orig)
        /\ \A k \in DOMAIN orig :
             LET old == orig[k]
                 new == NewMedia[k]
             IN  /\ new.variant = old.variant
                 /\ new.Type = old.Type
                 /\ (old.variant \in ThumbVariants) = (new.variant \in ThumbVariants)
                 /\ IF old.variant \in Recognised /\ RequiresUpload(old.Media)
                    THEN new.Media = [kind |-> "fileAttach",
                                      val |-> "attach://file-" \o ToString(k - 1)]
                    ELSE new.Media = old.Media
                 /\ old.variant \in ThumbVariants =>
                      IF old.variant \in Recognised /\ RequiresUpload(old.Thumb)
                      THEN new.Thumb = [kind |-> "fileAttach",
                                        val |-> "attach://file-" \o ToString(k - 1)
                                                  \o "-thumb"]
                      ELSE new.Thumb = old.Thumb

\* C2 witness: a rewritten two-item list in which a thumbnail was replaced
\* by its placeholder at index 1 and a reference was left as it was.
C2_Witness ==
    /\ IsGroup /\ outMedia.set /\ Len(orig) = 2
    /\ orig[2].variant = "InputMediaVideo"
    /\ orig[2].Thumb = FilePath("t.jpg")
    /\ NewMedia[2].Thumb = fileAttach("attach://file-1-thumb")
    /\ orig[1].Media = FileURL("http://u/v.mp4")
    /\ NewMedia[1].Media = FileURL("http://u/v.mp4")

\* The placeholder tokens present in a list of items.
Tokens(items) ==
    {items[k].Media.val : k \in {i \in DOMAIN items : items[i].Media.kind = "fileAttach"}}
    \cup {ThumbOf(items[k]).val :
            k \in {i \in DOMAIN items : ThumbOf(items[i]).kind = "fileAttach"}}

PartNames(parts) == {parts[k].Name : k \in DOMAIN parts}

\* C3: the placeholder tokens of the rewritten items and the names of the
\* file parts correspond one to one: every token attach://<name> names a
\* part, every part is named by a token, and no two parts share a name.
C3_TokensMatchParts ==
    (IsGroup /\ outMedia.set /\ outFiles.set) =>
        /\ Tokens(NewMedia) = {"attach://" \o n : n \in PartNames(outFiles.v)}
        /\ Cardinality(PartNames(outFiles.v)) = Len(outFiles.v)

\* C4: every part returned by files() of any request type pairs its name
\* with a reference that requires upload: a remote URL, an uploaded-file
\* identifier or an attachment placeholder never appears as a part.
C4_EveryPartNeedsUpload ==
    (pc = "built" /\ outFiles.set) =>
        \A k \in DOMAIN outFiles.v : outFiles.v[k].Data.kind \notin InlineKinds

SingleFileTypes == {"PhotoConfig", "AudioConfig", "VideoConfig", "StickerConfig"}

\* C4 as amended: every part returned by the media-group rewriter (files()
\* of MediaGroupConfig and EditMessageMediaConfig) carries a reference that
\* requires upload; files() of a single-file request (PhotoConfig,
\* AudioConfig, VideoConfig, StickerConfig) always starts with the part of
\* its primary File, whatever that reference's variant, and WebhookConfig
\* and PaidMediaConfig return their configured references as they are.
C4_RewriterPartsNeedUpload ==
    (pc = "built" /\ outFiles.set) =>
        /\ req.type \in {"MediaGroupConfig", "EditMessageMediaConfig"} =>
             \A k \in DOMAIN outFiles.v : outFiles.v[k].Data.kind \in UploadKinds
        /\ req.type \in SingleFileTypes =>
             /\ Len(outFiles.v) >= 1
             /\ outFiles.v[1].Data = req.File
        /\ req.type = "WebhookConfig" /\ req.Certificate # NilRef =>
             outFiles.v = <<[Name |-> "certificate", Data |-> req.Certificate]>>
        /\ req.type = "PaidMediaConfig" => outFiles.v = req.Media

\* C4 witness: files() of a media group that holds a reference sent by
\* value next to one that is uploaded has returned its parts.
C4_Witness ==
    /\ IsGroup /\ outFiles.set /\ Len(orig) = 2
    /\ orig[1].Media.kind = "FileURL"
    /\ orig[2].variant = "InputMediaAudio"
    /\ orig[2].Media.kind = "FileBytes"
    /\ orig[2].Thumb.kind = "FileID"
    /\ Len(outFiles.v) = 1

PrimaryKey(type) ==
    CASE type = "PhotoConfig" -> "photo"
      [] type = "AudioConfig" -> "audio"
      [] type = "VideoConfig" -> "video"

ThumbField(r) == IF r.type = "VideoConfig" THEN r.Thumbnail ELSE r.Thumb

UrlAndPathThumb(m) ==
    /\ m.variant \in {"InputMediaVideo", "InputMediaAudio", "InputMediaDocument"}
    /\ m.Media.kind = "FileURL"
    /\ m.Thumb.kind = "FilePath"

NoUploadIn(items) ==
    \A k \in DOMAIN items :
        ~RequiresUpload(items[k].Media) /\ ~RequiresUpload(ThumbOf(items[k]))

\* C6: when no item of a media group has a reference that requires upload,
\* MediaGroupConfig.files() returns no part, every item is unchanged in the
\* media parameter, and the submission is the plain one.
C6_NoUploadIsPlain ==
    (IsGroup /\ NoUploadIn(orig)) =>
        /\ outFiles.set => outFiles.v = << >>
        /\ outMedia.set => NewMedia = orig
        /\ sub.set => /\ sub.v.kind = "plain"
                      /\ sub.v.parts = << >>
                      /\ sub.v.fields["media"] = MarshalItems(orig)

\* C6 witness: a group of two items, none to upload, has been submitted.
C6_Witness ==
    /\ IsGroup /\ Len(orig) = 2 /\ NoUploadIn(orig)
    /\ orig[2].variant = "InputMediaDocument" /\ orig[2].Thumb.kind = "FileID"
    /\ sub.set /\ sub.v.kind = "plain"

RefsOf(items) ==
    {items[k].Media : k \in DOMAIN items} \cup {ThumbOf(items[k]) : k \in DOMAIN items}

\* C7: the rewriter never mutates the caller's items: after params() and
\* files() every element of the caller's list is what the caller built, and
\* the parts wrap the original references, never a placeholder.
C7_CallerItemsUntouched ==
    IsGroup =>
        /\ mem[req.Media] = orig
        /\ outFiles.set =>
             \A k \in DOMAIN outFiles.v :
                 /\ outFiles.v[k].Data \in RefsOf(orig)
                 /\ outFiles.v[k].Data.kind # "fileAttach"

\* C7 witness: params() has rewritten both references of an item and
\* files() has returned their parts.
C7_Witness ==
    /\ IsGroup /\ outMedia.set /\ outFiles.set /\ Len(orig) = 2
    /\ NewMedia[2].Media.kind = "fileAttach"
    /\ ThumbOf(NewMedia[2]).kind = "fileAttach"
    /\ Len(outFiles.v) >= 2

Unrecognised(m) == m.variant \notin Recognised

\* C8: an item of a variant the rewriter does not recognise produces no
\* rewrite and no part and is passed through unchanged in the rewritten
\* output, at its position in a media group and as the media of
\* editMessageMedia.
C8_UnrecognisedPassesThrough ==
    /\ IsGroup =>
         \A k \in DOMAIN orig :
             Unrecognised(orig[k]) =>
                 /\ outMedia.set => NewMedia[k] = orig[k]
                 /\ outFiles.set =>
                      \A j \in DOMAIN outFiles.v :
                          outFiles.v[j].Name \notin {FileName(k - 1), FileThumbName(k - 1)}
    /\ (IsEdit /\ Unrecognised(req.Media)) =>
         /\ outMedia.set => outMedia.v = [j |-> "item", item |-> req.Media]
         /\ outFiles.set => outFiles.v = << >>

\* C10: for a reference that does not require upload, SendData() returns
\* the string the reference was built from, and that string is the value
\* under the field's key when the reference is added as a nested value (the
\* `sticker` key of SendStickerConfig).
C10_SendDataIsTheParameter ==
    (/\ pc = "built" /\ req.type = "SendStickerConfig" /\ outParams.set
     /\ req.Sticker.kind \in InlineKinds)
        => /\ SendData(req.Sticker) = [panic |-> FALSE, ret |-> req.Sticker.val]
           /\ "sticker" \in DOMAIN outParams.v
           /\ outParams.v["sticker"] = SendData(req.Sticker).ret

\* C9: NeedsUpload() is true exactly for FilePath, FileBytes and FileReader;
\* SendData() panics exactly on those and UploadData() panics exactly on
\* FileURL, FileID and fileAttach, so the permitted operation of every
\* variant returns.
C9_UploadAndSendExclusive ==
    \A i \in DOMAIN lastCall :
        LET c == lastCall[i]
        IN  /\ c.ref.kind \in UploadKinds \cup InlineKinds
            /\ c.op = "NeedsUpload" =>
                 /\ ~c.out.panic
                 /\ c.out.ret = (c.ref.kind \in UploadKinds)
            /\ c.op = "SendData" => (c.out.panic = (c.ref.kind \in UploadKinds))
            /\ c.op = "UploadData" => (c.out.panic = (c.ref.kind \in InlineKinds))

\* C9 witness: UploadData has returned for a Local Path whose file is
\* missing, after SendData returned for a placeholder.
C9_Witness ==
    /\ Len(lastCall) = 2
    /\ lastCall[1].op = "SendData" /\ lastCall[1].ref.kind = "fileAttach"
    /\ ~lastCall[1].out.panic
    /\ lastCall[2].op = "UploadData" /\ lastCall[2].ref.kind = "FilePath"
    /\ ~lastCall[2].out.panic /\ lastCall[2].out.ret.err # "nil"

\* The File References a single-file request holds.
HeldRefs(r) ==
    CASE r.type \in {"PhotoConfig", "AudioConfig"} -> {r.File, r.Thumb}
      [] r.type = "VideoConfig"       -> {r.File, r.Thumbnail, r.Cover}
      [] r.type = "StickerConfig"     -> {r.File}
      [] r.type = "WebhookConfig"     -> {r.Certificate}
      [] r.type = "PaidMediaConfig"   -> {r.Media[k].Data : k \in DOMAIN r.Media}
      [] r.type = "SendStickerConfig" -> {r.Sticker}
      [] OTHER -> {}

HeldPaths(r) == {x.val : x \in {y \in HeldRefs(r) : y.kind = "FilePath"}}

\* C11: a Local Path is opened only by UploadData() during a submission.
\* For a request that holds a FilePath, whether or not the file can be
\* opened, params() returns no error and files() returns the references as
\* they are; nothing is opened before a multipart submission; an UploadData()
\* that fails returns an error with an empty name and no stream, and that
\* error is the one the submission ends with.
C11_PathOpenedOnlyByUploadData ==
    (pc = "built" /\ HeldPaths(req) # {}) =>
        /\ outParams.set => outParams.err = "nil"
        /\ outFiles.set =>
             \A k \in DOMAIN outFiles.v : outFiles.v[k].Data \in HeldRefs(req)
        /\ opened \subseteq HeldPaths(req)
        /\ opened # {} => (sub.set /\ sub.v.kind = "multipart")
        /\ \A i \in DOMAIN lastCall :
             LET c == lastCall[i]
             IN  c.ref.kind = "FilePath" =>
                   /\ c.op = "UploadData" /\ ~c.out.panic
                   /\ c.ref.val \in opened
                   /\ \/ c.out.ret = [name |-> c.ref.val,
                                      reader |-> [handle |-> c.ref.val],
                                      err |-> "nil"]
                      \/ /\ c.out.ret.err # "nil"
                         /\ c.out.ret.name = ""
                         /\ c.out.ret.reader = [none |-> TRUE]
        /\ (sub.set /\ sub.v.err \notin {"nil", "panic: nil pointer dereference"}) =>
             /\ lastCall # << >>
             /\ lastCall[Len(lastCall)].ref.kind = "FilePath"
             /\ lastCall[Len(lastCall)].out.ret.err = sub.v.err

\* C11 witness: a photo request over a missing file has had params() and
\* files() called and has been sent; only the upload failed.
C11_Witness ==
    /\ pc = "built" /\ req.type = "PhotoConfig" /\ req.File = FilePath("a.jpg")
    /\ "a.jpg" \notin fs
    /\ outParams.set /\ outParams.err = "nil"
    /\ outFiles.set /\ outFiles.v[1].Data = FilePath("a.jpg")
    /\ sub.set /\ sub.v.kind = "multipart" /\ sub.v.err = "open failed"
    /\ opened = {"a.jpg"}
    /\ Len(lastCall) = 1 /\ lastCall[1].out.ret.name = ""

\* C12: the caller-supplied stream of a FileReader is consumed at most once
\* over any sequence of operations on the request that holds it, sending
\* the request again included.
C12_StreamConsumedAtMostOnce == \A s \in Streams : consumed[s] <= 1

\* The requests that embed BaseChat.
EmbedsBaseChat(r) ==
    r.type \in {"PhotoConfig", "StickerConfig", "SendGameConfig", "ChatActionConfig"}

\* A step of building the mapping of r fails: the reply markup cannot be
\* serialised (which is also the error of the embedded BaseChat's params()),
\* or no chat candidate qualifies for AddFirstValid.
StepFails(r) ==
    \/ EmbedsBaseChat(r) /\ r.BaseChat.ReplyMarkup = [j |-> "unsupported"]
    \/ EmbedsBaseChat(r) /\ r.BaseChat.ChatID = 0 /\ r.BaseChat.ChannelUsername = ""
    \/ r.type = "ChatConfig" /\ r.ChatID = 0 /\ r.SuperGroupUsername = ""
    \/ r.type = "GetChatMenuButtonConfig" /\ r.ChatID = 0 /\ r.ChannelUsername = ""
    \/ /\ r.type = "UnbanChatMemberConfig" /\ r.ChatID = 0
       /\ r.SuperGroupUsername = "" /\ r.ChannelUsername = ""

\* C13: when a step of building the mapping of a request fails, params()
\* returns a non-nil error, and sending the request is aborted: no mapping
\* is submitted.
C13_FailedStepIsReturned ==
    (pc = "built" /\ StepFails(req)) =>
        /\ outParams.set => outParams.err # "nil"
        /\ sub.set => sub.v.kind = "aborted"

\* C14: AddFirstValid inserts under the key the wire form of the first
\* candidate, in order, that is a non-zero integer or a non-empty string,
\* whatever the later candidates are; with no such candidate it inserts
\* nothing and fails.  Observed through GetChatMenuButtonConfig.params, which
\* returns the mapping and the error as they are, and through the three
\* candidates of UnbanChatMemberConfig.params.
C14_FirstValidCandidate ==
    /\ (pc = "built" /\ req.type = "GetChatMenuButtonConfig" /\ outParams.set) =>
         IF req.ChatID = 42
         THEN outParams.v = [k \in {"chat_id"} |-> "42"] /\ outParams.err = "nil"
         ELSE IF req.ChannelUsername = "@chan"
         THEN outParams.v = [k \in {"chat_id"} |-> "@chan"] /\ outParams.err = "nil"
         ELSE outParams.v = [k \in {} |-> ""] /\ outParams.err # "nil"
    /\ (pc = "built" /\ req.type = "UnbanChatMemberConfig" /\ outParams.set) =>
         IF req.ChatID = 42 THEN outParams.v["chat_id"] = "42"
         ELSE IF req.SuperGroupUsername = "@group"
         THEN outParams.v["chat_id"] = "@group"
         ELSE IF req.ChannelUsername = "@chan" THEN outParams.v["chat_id"] = "@chan"
         ELSE "chat_id" \notin DOMAIN outParams.v

\* C14 witness: params() of a GetChatMenuButtonConfig with neither an ID
\* nor a username has returned an empty mapping and an error.
C14_Witness ==
    /\ pc = "built" /\ req.type = "GetChatMenuButtonConfig"
    /\ req.ChatID = 0 /\ req.ChannelUsername = ""
    /\ outParams.set /\ outParams.v = [k \in {} |-> ""]
    /\ outParams.err = "InvalidParameterError"

IsStory(r) == r.type \in {"PostStoryConfig", "EditStoryConfig", "DeleteStoryConfig"}

\* The required parameters of a story request, and those not supplied.
RequiredKeys(r) ==
    CASE r.type = "PostStoryConfig" ->
           {"business_connection_id", "content", "active_period"}
      [] r.type = "EditStoryConfig" -> {"business_connection_id", "story_id", "content"}
      [] r.type = "DeleteStoryConfig" -> {"business_connection_id", "story_id"}

NotSupplied(r) ==
    {k \in RequiredKeys(r) :
        \/ k = "business_connection_id" /\ r.BusinessConnectionID = ""
        \/ k = "content" /\ r.Content = [Type |-> "", Photo |-> ""]
        \/ k = "active_period" /\ r.ActivePeriod = 0
        \/ k = "story_id" /\ r.StoryID = 0}

\* C15: params() of a story request returns an error and no mapping when
\* a required field is not supplied, and its mapping with no error when all
\* are supplied.
C15_RequiredStoryFields ==
    (pc = "built" /\ IsStory(req) /\ outParams.set) =>
        IF NotSupplied(req) # {}
        THEN outParams.err # "nil" /\ outParams.v = [k \in {} |-> ""]
        ELSE outParams.err = "nil" /\ RequiredKeys(req) \subseteq DOMAIN outParams.v

\* The boolean fields a request adds with AddBool, with their values.
BoolFields(r) ==
    CASE r.type \in {"PostStoryConfig", "EditStoryConfig"} ->
           {<<"post_to_chat_page", r.PostToChatPage>>,
            <<"protect_content", r.ProtectContent>>}
      [] r.type \in {"PhotoConfig", "StickerConfig", "ChatActionConfig"} ->
           {<<"disable_notification", r.BaseChat.DisableNotification>>,
            <<"allow_sending_without_reply", r.BaseChat.AllowSendingWithoutReply>>,
            <<"protect_content", r.BaseChat.ProtectContent>>}
      [] r.type = "SendGameConfig" ->
           {<<"disable_notification", r.DisableNotification>>,
            <<"allow_sending_without_reply", r.BaseChat.AllowSendingWithoutReply>>,
            <<"protect_content", r.ProtectContent>>,
            <<"allow_paid_broadcast", r.AllowPaidBroadcast>>}
      [] r.type = "UnbanChatMemberConfig" -> {<<"only_if_banned", r.OnlyIfBanned>>}
      [] OTHER -> {}

\* C16: in the mapping params() returns, every boolean field added with
\* AddBool is present, as "true" or as "false": it is not left out when it
\* is false.
C16_BooleansAlwaysWritten ==
    (pc = "built" /\ outParams.set /\ outParams.err = "nil") =>
        \A f \in BoolFields(req) :
            /\ f[1] \in DOMAIN outParams.v
            /\ outParams.v[f[1]] = (IF f[2] THEN "true" ELSE "false")

\* C16 witness: a posted story with one boolean true and the other false.
C16_Witness ==
    /\ pc = "built" /\ req.type = "PostStoryConfig"
    /\ req.PostToChatPage /\ ~req.ProtectContent
    /\ outParams.set /\ outParams.err = "nil"
    /\ outParams.v["post_to_chat_page"] = "true"
    /\ outParams.v["protect_content"] = "false"

\* The integer and string fields of a story request added with AddNonZero
\* and AddNonEmpty: key, whether the field is zero or empty, expected text.
ScalarFields(r) ==
    {<<"business_connection_id", r.BusinessConnectionID = "", r.BusinessConnectionID>>}
    \cup (IF r.type = "PostStoryConfig"
          THEN {<<"active_period", r.ActivePeriod = 0, "86400">>}
          ELSE {<<"story_id", r.StoryID = 0,
                  IF r.type = "EditStoryConfig" THEN "12345" ELSE "67890">>})
    \cup (IF r.type = "DeleteStoryConfig" THEN {}
          ELSE {<<"caption", r.Caption = "", r.Caption>>,
                <<"parse_mode", r.ParseMode = "", r.ParseMode>>})

\* C17: AddNonZero writes the decimal text of a non-zero integer and
\* AddNonEmpty the string itself when it is not empty, under the given key;
\* for a zero or empty field the key is absent from the mapping.
C17_NonZeroNonEmpty ==
    (pc = "built" /\ IsStory(req) /\ outParams.set) =>
        \A f \in ScalarFields(req) :
            IF f[2] THEN f[1] \notin DOMAIN outParams.v
            ELSE outParams.err = "nil" =>
                   (f[1] \in DOMAIN outParams.v /\ outParams.v[f[1]] = f[3])

\* C17 witness: a posted story with an active period and no caption.
C17_Witness ==
    /\ pc = "built" /\ req.type = "PostStoryConfig"
    /\ req.ActivePeriod = 86400 /\ req.Caption = ""
    /\ outParams.set /\ outParams.err = "nil"
    /\ outParams.v["active_period"] = "86400"
    /\ "caption" \notin DOMAIN outParams.v

\* A chat target of 42 and nothing else.
Chat42 ==
    [ChatID |-> 42, ChannelUsername |-> "", ProtectContent |-> FALSE,
     ReplyToMessageID |-> 0, ReplyMarkup |-> [j |-> "nil"],
     DisableNotification |-> FALSE, AllowSendingWithoutReply |-> FALSE,
     BusinessConnectionID |-> "", MessageThreadID |-> 0]

\* The requests built with chat target 42 and no optional field set.
Bare42(r) ==
    \/ r.type = "ChatConfig" /\ r.ChatID = 42 /\ r.SuperGroupUsername = ""
    \/ r.type = "GetChatMenuButtonConfig" /\ r.ChatID = 42 /\ r.ChannelUsername = ""
    \/ r.type = "ChatActionConfig" /\ r.BaseChat = Chat42

OnlyChatID == [k \in {"chat_id"} |-> "42"]

SenderOrder ==
    <<"Message", "EditedMessage", "ChannelPost", "EditedChannelPost",
      "BusinessConnection", "BusinessMessage", "EditedBusinessMessage",
      "MessageReaction", "InlineQuery", "ChosenInlineResult", "CallbackQuery",
      "ShippingQuery", "PreCheckoutQuery", "PollAnswer", "ChatMember",
      "ChatJoinRequest">>

\* The sender carried by sub-payload f of u, nil when there is none.
SenderOf(u, f) ==
    IF u[f].nil THEN [nil |-> TRUE]
    ELSE IF f \in {"BusinessConnection", "MessageReaction", "PollAnswer"}
         THEN u[f].User
         ELSE u[f].From

\* The first sender present in priority order from position k on.
RECURSIVE FirstSender(_, _)
FirstSender(u, k) ==
    IF k > Len(SenderOrder) THEN [nil |-> TRUE]
    ELSE IF ~SenderOf(u, SenderOrder[k]).nil THEN SenderOf(u, SenderOrder[k])
         ELSE FirstSender(u, k + 1)

\* The sender of the first sub-payload present in priority order from k on.
RECURSIVE SenderOfFirstPayload(_, _)
SenderOfFirstPayload(u, k) ==
    IF k > Len(SenderOrder) THEN [nil |-> TRUE]
    ELSE IF ~u[SenderOrder[k]].nil THEN SenderOf(u, SenderOrder[k])
         ELSE SenderOfFirstPayload(u, k + 1)

\* C19: SentFrom inspects the sub-payloads in the fixed priority order and
\* returns the first sender that is present; it returns nil only when none
\* of the sub-payloads has a sender.
C19_FirstPresentSender ==
    \A i \in DOMAIN lastCall :
        lastCall[i].op = "SentFrom" =>
            /\ ~lastCall[i].out.panic
            /\ lastCall[i].out.ret = FirstSender(lastCall[i].ref, 1)

\* C19 as it holds: SentFrom returns the sender of the first sub-payload
\* that is present in the fixed priority order, which is nil when that
\* sub-payload carries no sender, and nil when none of them is present.
C19_SenderOfFirstPayload ==
    \A i \in DOMAIN lastCall :
        lastCall[i].op = "SentFrom" =>
            /\ ~lastCall[i].out.panic
            /\ lastCall[i].out.ret = SenderOfFirstPayload(lastCall[i].ref, 1)

\* C19 witness: SentFrom has returned the sender of a callback query that
\* is the only sub-payload of its update.
C19_Witness ==
    /\ Len(lastCall) = 1 /\ lastCall[1].op = "SentFrom"
    /\ ~update.CallbackQuery.nil /\ ~update.CallbackQuery.From.nil
    /\ \A f \in FieldNames \ {"CallbackQuery"} : update[f].nil
    /\ lastCall[1].out = [panic |-> FALSE, ret |-> update.CallbackQuery.From]

\* C20: SentFrom and FromChat return a user or chat, or nil, for every
\* Update, without failing, and leave the Update as it was.
C20_TotalPureProjections ==
    \A i \in DOMAIN lastCall :
        lastCall[i].op \in {"SentFrom", "FromChat"} =>
            /\ ~lastCall[i].out.panic
            /\ lastCall[i].ref = update

\* The value under key k of a JSON object, or the zero value when absent.
Field(object, k, zero) == IF k \in DOMAIN object THEN object[k] ELSE zero

\* C21: decoding an envelope whose ok flag is false yields a typed error
\* with the envelope's error code, its description as the error message and
\* its retry-after and migrate-to-chat-id parameters; an envelope whose ok
\* flag is true never yields this error.
C21_ErrorFromEnvelope ==
    \A i \in DOMAIN lastCall :
        lastCall[i].op = "decode" =>
            LET err == lastCall[i].out.ret
                parameters == Field(resp, "parameters", << >>)
            IN  IF Field(resp, "ok", FALSE)
                THEN err.nil
                ELSE /\ ~err.nil
                     /\ err.Code = Field(resp, "error_code", 0)
                     /\ ErrorString(err) = Field(resp, "description", "")
                     /\ err.RetryAfter = Field(parameters, "retry_after", 0)
                     /\ err.MigrateToChatID = Field(parameters, "migrate_to_chat_id", 0)

\* C21 witness: the envelope {ok: false, error_code: 429, description:
\* "Too Many Requests", parameters: {retry_after: 5}} has been decoded into
\* an error whose RetryAfter is 5.
C21_Witness ==
    /\ DOMAIN resp = {"ok", "error_code", "description", "parameters"}
    /\ ~resp.ok /\ resp.error_code = 429
    /\ resp.description = "Too Many Requests"
    /\ DOMAIN resp.parameters = {"retry_after"}
    /\ Len(lastCall) = 1 /\ lastCall[1].op = "decode"
    /\ lastCall[1].out.ret.Code = 429
    /\ lastCall[1].out.ret.RetryAfter = 5

\* C22: when no update is sent while Clear runs, the channel holds no
\* buffered update once Clear has returned (whatever it holds was sent after
\* the call), and no update buffered before the call reaches a receiver
\* that receives after Clear returned.
C22_ClearDiscardsBuffered ==
    clearing.pc = "returned" =>
        /\ \A i \in DOMAIN ch : ch[i] > clearing.mark
        /\ \A i \in DOMAIN later : later[i] > clearing.mark

\* C22 witness: Clear has returned after dropping two buffered updates, and
\* a later receiver has been given an update.
C22_Witness ==
    /\ clearing.pc = "returned"
    /\ clearing.dropped = 2
    /\ Len(later) = 1

\* C26: Clear never waits on a receive from a channel that another
\* goroutine emptied after Clear found it non-empty.
C26_ClearNeverBlocks ==
    ~(clearing.pc = "recv" /\ ch = << >>)

\* The message starts with a bot_command entity at offset 0.
StartsWithCommand(m) ==
    /\ Len(m.Entities) > 0
    /\ m.Entities[1].Type = "bot_command"
    /\ m.Entities[1].Offset = 0

\* The text of m from after the leading slash to the end of its first entity.
CommandText(m) == SubSeq(m.Text, 2, m.Entities[1].Length)

\* s up to its first "@", all of s when it has none.
BeforeAt(s) ==
    IF \E i \in DOMAIN s : s[i] = "@"
    THEN SubSeq(s, 1, (CHOOSE i \in DOMAIN s :
                          s[i] = "@" /\ \A j \in 1..(i - 1) : s[j] # "@") - 1)
    ELSE s

\* The text of m after its first entity and one more character.
ArgumentText(m) == SubSeq(m.Text, m.Entities[1].Length + 2, Len(m.Text))

\* What the claim expects of operation op on message m.
ExpectedOfCommand(op, m) ==
    IF StartsWithCommand(m)
    THEN CASE op = "IsCommand" -> TRUE
           [] op = "CommandWithAt" -> CommandText(m)
           [] op = "Command" -> BeforeAt(CommandText(m))
           [] op = "CommandArguments" -> ArgumentText(m)
    ELSE IF op = "IsCommand" THEN FALSE ELSE << >>

CommandOps == {"IsCommand", "CommandWithAt", "Command", "CommandArguments"}

\* C23: for a message whose first entity is a bot_command at offset 0,
\* CommandWithAt returns the text between the leading slash and the end of
\* the entity, Command that text without its @name suffix, CommandArguments
\* the text after the command less one separator character; for every
\* other message IsCommand is false and the three return the empty string.
C23_CommandParts ==
    \A i \in DOMAIN lastCall :
        lastCall[i].op \in CommandOps =>
            /\ ~lastCall[i].out.panic
            /\ lastCall[i].out.ret = ExpectedOfCommand(lastCall[i].op, lastCall[i].ref)

\* C27: Command, CommandWithAt and CommandArguments return a string for
\* every message for which IsCommand is true, whatever the Length of its
\* first entity is relative to the length of its Text.
C27_NoSliceOutOfRange ==
    \A i \in DOMAIN lastCall :
        (lastCall[i].op \in CommandOps /\ IsCommand(lastCall[i].ref)) =>
            ~lastCall[i].out.panic

\* The requests that carry a message target, and the record that holds it.
HasTarget(r) ==
    r.type \in {"EditMessageTextConfig", "EditMessageCaptionConfig",
                "EditMessageLiveLocationConfig", "StopMessageLiveLocationConfig",
                "EditMessageReplyMarkupConfig", "StopPollConfig",
                "EditMessageMediaConfig", "SetGameScoreConfig",
                "GetGameHighScoresConfig"}

TargetOf(r) ==
    IF r.type \in {"SetGameScoreConfig", "GetGameHighScoresConfig"} THEN r
    ELSE r.BaseEdit

\* Key k of mapping p holds value v.
Holds(p, k, v) == k \in DOMAIN p /\ p[k] = v

\* C25: in every request built on BaseEdit, and in SetGameScoreConfig and
\* GetGameHighScoresConfig, a non-empty InlineMessageID puts
\* inline_message_id in the mapping and neither chat_id nor message_id;
\* an empty one puts no inline_message_id, chat_id as the first valid of
\* ChatID and ChannelUsername, and message_id when it is non-zero.
C25_TargetIsExclusive ==
    (outParams.set /\ HasTarget(req)) =>
        LET t == TargetOf(req)
            p == outParams.v
        IN  IF t.InlineMessageID # ""
            THEN /\ Holds(p, "inline_message_id", t.InlineMessageID)
                 /\ "chat_id" \notin DOMAIN p
                 /\ "message_id" \notin DOMAIN p
            ELSE /\ "inline_message_id" \notin DOMAIN p
                 /\ IF t.ChatID # 0 THEN Holds(p, "chat_id", ToString(t.ChatID))
                    ELSE IF t.ChannelUsername # ""
                         THEN Holds(p, "chat_id", t.ChannelUsername)
                         ELSE "chat_id" \notin DOMAIN p
                 /\ IF t.MessageID # 0 THEN Holds(p, "message_id", ToString(t.MessageID))
                    ELSE "message_id" \notin DOMAIN p

\* C25 witness: params() of a GetGameHighScoresConfig with an inline
\* message ID and a chat ID, channel username and message ID as well has
\* returned a mapping with inline_message_id.
C25_Witness ==
    /\ outParams.set
    /\ req.type = "GetGameHighScoresConfig"
    /\ req.InlineMessageID = "inline1" /\ req.ChatID = 42
    /\ req.ChannelUsername = "@chan" /\ req.MessageID = 7
    /\ Holds(outParams.v, "inline_message_id", "inline1")

\* C29: params() of a SetGameScoreConfig with a non-zero Score holds the
\* decimal string of Score under the key score, and under no other key.
C29_ScoreKey ==
    (outParams.set /\ req.type = "SetGameScoreConfig" /\ req.Score # 0) =>
        /\ Holds(outParams.v, "score", ToString(req.Score))
        /\ DOMAIN outParams.v \subseteq
              {"user_id", "score", "force", "disable_edit_message", "chat_id",
               "message_id", "inline_message_id"}

\* C30: ForwardMsgsConfig reports a method name other than ForwardConfig's
\* forwardMessage.
C30_ForwardMethodsDiffer ==
    \A i \in DOMAIN lastCall :
        (lastCall[i].op = "method" /\ lastCall[i].ref.type = "ForwardMsgsConfig") =>
            /\ lastCall[i].out.ret # "forwardMessage"
            /\ lastCall[i].out.ret #
                 MethodOf(ForwardConfig(lastCall[i].ref.BaseChat,
                                        lastCall[i].ref.FromChatID, 7))

\* C28: no part returned by files() of a single-file request has an absent
\* File Reference, whether or not the primary File field is set.
C28_NoPartWithoutReference ==
    (outFiles.set /\ req.type \in SingleFileTypes) =>
        \A i \in DOMAIN outFiles.v : outFiles.v[i].Data # NilRef

\* What a call returned, without the address of a returned map.
Returned(c) ==
    IF c.op = "params" THEN [params |-> c.out.ret.params, err |-> c.out.ret.err]
    ELSE c.out.ret

=============================================================================
